---- MODULE Spec2Model ----
(***************************************************************************)
(* State-machine model of the song rating backend (FastAPI + SQLAlchemy).  *)
(* Every HTTP handler is one atomic action; its response is left in resp.  *)
(* The database tables are sets of rows, the storage tree is the set of    *)
(* paths that exist on disk, and the wall clock is the variable now.       *)
(***************************************************************************)
EXTENDS Integers, Sequences, FiniteSets, TLC

VARIABLES
    users,          \* table users
    nextUserId,     \* users.id sequence
    issued,         \* access tokens handed out by register / login
    now,            \* datetime.utcnow(), in whole seconds
    segments,       \* table segments
    nextSegmentId,  \* segments.id sequence
    recordings,     \* table recordings
    nextRecordingId,\* recordings.id sequence
    attempts,       \* table attempts
    nextAttemptId,  \* attempts.id sequence
    files,          \* paths that exist under the storage root
    nextUuid,       \* stands for uuid.uuid4(): a fresh name per upload
    resp,           \* the response of the last request
    tasks           \* the requests in flight on the event loop, by slot

vars == <<users, nextUserId, issued, now, segments, nextSegmentId, recordings,
          nextRecordingId, attempts, nextAttemptId, files, nextUuid, resp, tasks>>

authVars == <<users, nextUserId, issued>>
dataVars == <<segments, nextSegmentId, recordings, nextRecordingId, attempts, nextAttemptId,
              files, nextUuid>>

-----------------------------------------------------------------------------
(* Bounds of the model *)

MaxUsers == 2
MaxSegments == 2
MaxAttempts == 2
MaxUploads == 1
MaxTokens == 2
MaxTasks == 2
MaxDuration == 4
MaxPoints == 2
MaxSamples == 6

(* Program constants *)

access_token_expire_days == 7
segment_retention_days == 7
SecondsPerDay == 24 * 60 * 60
expires_in == 60 * 60 * 24 * 7

TokenLifetime == access_token_expire_days * SecondsPerDay
Retention == segment_retention_days * SecondsPerDay

\* The instants the clock is observed at: around issuance and around expiry.
Times == {0, 1, TokenLifetime, TokenLifetime + 1}

NULL == 0

-----------------------------------------------------------------------------
(* Requests in flight.  A handler is a coroutine: it runs on the one event *)
(* loop thread from one suspension point (an awaited database or file      *)
(* call) to the next.  A slot holds a request's position and the locals it *)
(* carries across suspension points.                                       *)

TaskIds == 1..MaxTasks

IdleTask == [op |-> "idle", pc |-> "idle", user |-> NULL, sid |-> NULL,
             rid |-> NULL, n |-> 0, email |-> "", username |-> "",
             password |-> [head |-> "", tail |-> ""],
             segment |-> {}, recording |-> {}, related |-> {}, status |-> 0]

\* The calls that are made without await and without an executor: they run
\* to their end on the event loop thread.
CpuJobs == {"process_song", "separate_vocals", "analyze_singing_similarity"}

MutJobsOffloaded(pc) == FALSE

\* Whether a coroutine at pc is executing on the event loop thread rather
\* than waiting at a suspension point.
blocks_loop(pc) == pc \in CpuJobs

\* The thread is held by a request other than i.
loop_busy(i) == \E j \in TaskIds \ {i} : blocks_loop(tasks[j].pc)

NoTasks == [i \in TaskIds |-> IdleTask]

\* A response leaves the handler: the slot keeps the status it was given.
Done(t, status) == [t EXCEPT !.pc = "done", !.status = status]

-----------------------------------------------------------------------------
(* Responses *)

NoBody == [kind |-> "none"]

Response(op, req, status, detail, www, body) ==
    [op |-> op, req |-> req, status |-> status, detail |-> detail,
     www |-> www, body |-> body]

\* utils/exceptions.py: the WWW-Authenticate header is attached to 401 only.
create_http_exception(status, detail) ==
    [status |-> status, detail |-> detail, www |-> (status = 401)]

\* A plain fastapi.HTTPException(status_code, detail): no extra header.
HTTPException(status, detail) ==
    [status |-> status, detail |-> detail, www |-> FALSE]

Fail(op, req, exc) ==
    Response(op, req, exc.status, exc.detail, exc.www, NoBody)

-----------------------------------------------------------------------------
(* Passwords: bcrypt reads at most 72 bytes.  A password is its first 72   *)
(* bytes (head) and whatever follows (tail).                               *)

Passwords == {[head |-> "pw1", tail |-> ""], [head |-> "pw1", tail |-> "x"],
              [head |-> "pw2", tail |-> ""]}

get_password_hash(password) == [alg |-> "bcrypt", of |-> password.head]

verify_password(plain_password, hashed_password) ==
    hashed_password.of = plain_password.head

-----------------------------------------------------------------------------
(* Tokens.  The subject claim is text: str(user.id) on the way in, int()   *)
(* on the way out.                                                         *)

Str(n) == [kind |-> "digits", n |-> n]
NonNumericSub == [kind |-> "text", n |-> 0]
AbsentSub == [kind |-> "absent", n |-> 0]

\* int(user_id_str): ValueError for text that is not a number.
IsNumeric(sub) == sub.kind = "digits"
ParseInt(sub) == sub.n

Malformed == [sig |-> "none", sub |-> AbsentSub, exp |-> 0]

\* jwt.encode({"sub": ..., "exp": utcnow() + expires_delta}, secret, HS256)
create_access_token(sub, t) ==
    [sig |-> "valid", sub |-> sub, exp |-> t + TokenLifetime]

MutDecodeIgnoresExpiry(token, t) ==
    IF token.sig # "valid" THEN [ok |-> FALSE, sub |-> AbsentSub]
    ELSE [ok |-> TRUE, sub |-> token.sub]

\* jwt.decode(token, secret, algorithms=["HS256"]): JWTError for a token that
\* does not parse, whose signature does not verify, or whose exp is in the
\* past (exp < now).
jwt_decode(token, t) ==
    IF token.sig # "valid" \/ token.exp < t
    THEN [ok |-> FALSE, sub |-> AbsentSub]
    ELSE [ok |-> TRUE, sub |-> token.sub]

-----------------------------------------------------------------------------
(* Credentials of a request: what the Authorization header holds.          *)

NoHeader == [scheme |-> "none", token |-> Malformed]
OtherScheme == [scheme |-> "basic", token |-> Malformed]
Bearer(token) == [scheme |-> "bearer", token |-> token]

\* fastapi.security.HTTPBearer() with auto_error left at True: a request
\* with no Authorization header, or one that is not a Bearer header, is
\* answered by the dependency itself, before the function that depends on
\* it runs.  The status of the missing-header answer depends on the FastAPI
\* release (403 in older ones, 401 in newer ones); fw selects it.
FrameworkVariants == {403, 401}

security(cred, fw) ==
    IF cred.scheme = "none"
    THEN [ok |-> FALSE,
          exc |-> [status |-> fw, detail |-> "Not authenticated",
                   www |-> (fw = 401)]]
    ELSE IF cred.scheme # "bearer"
    THEN [ok |-> FALSE,
          exc |-> [status |-> fw,
                   detail |-> IF fw = 403 THEN "Invalid authentication credentials"
                              ELSE "Not authenticated",
                   www |-> (fw = 401)]]
    ELSE [ok |-> TRUE, exc |-> HTTPException(200, "")]

UserById(id) == {u \in users : u.id = id}

NoUser == [id |-> NULL, email |-> "", username |-> "",
           password_hash |-> [alg |-> "none", of |-> ""], is_active |-> FALSE]

\* db.get(User, user_id)
db_get_user(id) == IF UserById(id) = {} THEN NoUser ELSE CHOOSE u \in UserById(id) : TRUE

Resolved(u) == [ok |-> TRUE, user |-> u, exc |-> HTTPException(200, "")]
Rejected(exc) == [ok |-> FALSE, user |-> NoUser, exc |-> exc]

credentials_exception == create_http_exception(401, "Could not validate credentials")

\* utils/security.py get_current_user
get_current_user(cred, fw) ==
    LET sec == security(cred, fw)
        payload == jwt_decode(cred.token, now)
    IN  IF ~sec.ok THEN Rejected(sec.exc)
        ELSE IF ~payload.ok THEN Rejected(credentials_exception)
        ELSE IF payload.sub.kind = "absent" THEN Rejected(credentials_exception)
        ELSE IF ~IsNumeric(payload.sub) THEN Rejected(credentials_exception)
        ELSE IF db_get_user(ParseInt(payload.sub)) = NoUser THEN Rejected(credentials_exception)
        ELSE Resolved(db_get_user(ParseInt(payload.sub)))

\* utils/security.py get_optional_user: Resolved(NoUser) is "None".
get_optional_user(cred, fw) ==
    LET sec == security(cred, fw)
        payload == jwt_decode(cred.token, now)
        user == db_get_user(ParseInt(payload.sub))
    IN  IF ~sec.ok THEN Rejected(sec.exc)
        ELSE IF ~payload.ok THEN Resolved(NoUser)
        ELSE IF payload.sub.kind = "absent" THEN Resolved(NoUser)
        ELSE IF ~IsNumeric(payload.sub) THEN Resolved(NoUser)
        ELSE IF user # NoUser /\ user.is_active THEN Resolved(user)
        ELSE Resolved(NoUser)

-----------------------------------------------------------------------------
(* Authentication endpoints (api/auth.py) and AuthService                  *)

Emails == {"a@x.io", "b@x.io"}
Usernames == {"ann", "bob"}

NoToken == Malformed

TokenBody(u, token) ==
    [kind |-> "token", user |-> u.id, email |-> u.email, username |-> u.username,
     is_active |-> u.is_active, access_token |-> token, token_type |-> "bearer",
     expires_in |-> expires_in]

MutUsernameCheckedFirst(email, username) ==
    IF \E u \in users : u.username = username
    THEN "Username already taken"
    ELSE IF \E u \in users : u.email = email
    THEN "User with this email already exists"
    ELSE ""

\* AuthService.create_user: the two look-ups that precede the insert.
create_user_error(email, username) ==
    IF \E u \in users : u.email = email
    THEN "User with this email already exists"
    ELSE IF \E u \in users : u.username = username
    THEN "Username already taken"
    ELSE ""

\* POST /api/auth/register
Register(email, username, password, dbOk) ==
    LET req == [email |-> email, username |-> username]
        err == create_user_error(email, username)
        db_user == [id |-> nextUserId, email |-> email, username |-> username,
                    password_hash |-> get_password_hash(password),
                    is_active |-> TRUE]
        token == create_access_token(Str(db_user.id), now)
    IN  /\ UNCHANGED <<tasks, now, dataVars>>
        /\ IF err # ""
           THEN /\ resp' = Fail("register", req, HTTPException(400, err))
                /\ UNCHANGED authVars
           ELSE IF ~dbOk
           THEN /\ resp' = Fail("register", req, HTTPException(500, "Failed to create user"))
                /\ UNCHANGED authVars
           ELSE /\ nextUserId <= MaxUsers
                /\ Cardinality(issued) < MaxTokens
                /\ users' = users \cup {db_user}
                /\ nextUserId' = nextUserId + 1
                /\ issued' = issued \cup {[token |-> token, user |-> db_user.id, iat |-> now]}
                /\ resp' = Response("register", req, 201, "", FALSE, TokenBody(db_user, token))

MutAuthenticateWithoutPassword(email, password) ==
    LET found == {u \in users : u.email = email}
    IN  IF found = {} THEN NoUser ELSE CHOOSE u \in found : TRUE

\* utils/security.py authenticate_user
authenticate_user(email, password) ==
    LET found == {u \in users : u.email = email}
        user == IF found = {} THEN NoUser ELSE CHOOSE u \in found : TRUE
    IN  IF user = NoUser THEN NoUser
        ELSE IF ~verify_password(password, user.password_hash) THEN NoUser
        ELSE user

\* POST /api/auth/login
Login(email, password) ==
    LET req == [email |-> email, password |-> password]
        user == authenticate_user(email, password)
        token == create_access_token(Str(user.id), now)
    IN  /\ UNCHANGED <<tasks, now, dataVars, users, nextUserId>>
        /\ IF user = NoUser
           THEN /\ resp' = Fail("login", req, HTTPException(401, "Invalid email or password"))
                /\ UNCHANGED issued
           ELSE IF ~user.is_active
           THEN /\ resp' = Fail("login", req, HTTPException(401, "User account is inactive"))
                /\ UNCHANGED issued
           ELSE /\ Cardinality(issued) < MaxTokens
                /\ issued' = issued \cup {[token |-> token, user |-> user.id, iat |-> now]}
                /\ resp' = Response("login", req, 200, "", FALSE, TokenBody(user, token))

\* POST /api/auth/logout
Logout(cred, fw) ==
    LET req == [cred |-> cred]
        cur == get_current_user(cred, fw)
    IN  /\ UNCHANGED <<tasks, now, dataVars, authVars>>
        /\ resp' = IF ~cur.ok THEN Fail("logout", req, cur.exc)
                   ELSE Response("logout", req, 200, "Successfully logged out", FALSE,
                                 NoBody)

\* GET /api/auth/me
Me(cred, fw) ==
    LET req == [cred |-> cred]
        cur == get_current_user(cred, fw)
    IN  /\ UNCHANGED <<tasks, now, dataVars, authVars>>
        /\ resp' = IF ~cur.ok THEN Fail("me", req, cur.exc)
                   ELSE Response("me", req, 200, "", FALSE,
                                 [kind |-> "user", user |-> cur.user.id])

\* AuthService.update_user(db, user_id, is_active=...)
UpdateUser(id, active) ==
    /\ UserById(id) # {}
    /\ users' = {IF u.id = id THEN [u EXCEPT !.is_active = active] ELSE u : u \in users}
    /\ resp' = Response("update_user", [id |-> id], 200, "", FALSE, NoBody)
    /\ UNCHANGED <<tasks, now, dataVars, nextUserId, issued>>

\* GET /api/recording/
GetRecordings(cred, fw) ==
    LET req == [cred |-> cred]
        cur == get_optional_user(cred, fw)
        rows == IF cur.user # NoUser
                THEN {r \in recordings : r.user_id = cur.user.id}
                ELSE recordings
    IN  /\ UNCHANGED <<tasks, now, dataVars, authVars>>
        /\ resp' = IF ~cur.ok THEN Fail("get_recordings", req, cur.exc)
                   ELSE Response("get_recordings", req, 200, "", FALSE,
                                 [kind |-> "recordings", user |-> cur.user.id,
                                  ids |-> {r.id : r \in rows}])

\* The clock moves on, to one of the instants in T.
TickTo(T) ==
    /\ \E t \in T : t > now /\ now' = t
    /\ resp' = Response("tick", [none |-> TRUE], 0, "", FALSE, NoBody)
    /\ UNCHANGED <<tasks, dataVars, authVars>>

Tick == TickTo(Times)

\* Tokens a client can present: the ones it was issued, and ones that were
\* not issued to it by register or login.
ForgedTokens ==
    {Malformed,
     [sig |-> "bad", sub |-> Str(1), exp |-> now + 1],
     [sig |-> "valid", sub |-> AbsentSub, exp |-> now + 1],
     [sig |-> "valid", sub |-> NonNumericSub, exp |-> now + 1],
     [sig |-> "valid", sub |-> Str(MaxUsers + 1), exp |-> now + 1]}

Credentials ==
    {NoHeader, OtherScheme} \cup {Bearer(t.token) : t \in issued}
        \cup {Bearer(t) : t \in ForgedTokens}

InitAuth ==
    /\ users = {}
    /\ nextUserId = 1
    /\ issued = {}
    /\ now = 0
    /\ segments = {}
    /\ nextSegmentId = 1
    /\ recordings = {}
    /\ nextRecordingId = 1
    /\ attempts = {}
    /\ nextAttemptId = 1
    /\ files = {}
    /\ nextUuid = 1
    /\ resp = Response("init", [none |-> TRUE], 0, "", FALSE, NoBody)
    /\ tasks = NoTasks

NextAuth ==
    \/ \E e \in Emails, n \in Usernames, p \in Passwords, dbOk \in BOOLEAN :
          Register(e, n, p, dbOk)
    \/ \E e \in Emails, p \in Passwords : Login(e, p)
    \/ \E c \in Credentials, fw \in FrameworkVariants : Logout(c, fw)
    \/ \E c \in Credentials, fw \in FrameworkVariants : Me(c, fw)
    \/ \E c \in Credentials, fw \in FrameworkVariants : GetRecordings(c, fw)
    \/ \E id \in 1..MaxUsers, a \in BOOLEAN : UpdateUser(id, a)
    \/ Tick

SpecAuth == InitAuth /\ [][NextAuth]_vars

-----------------------------------------------------------------------------
(* POST /api/auth/register, one suspension point at a time                 *)

\* users.email and users.username are unique columns: an INSERT that
\* repeats either is refused by the database (IntegrityError).
unique_violation(email, username) ==
    \E u \in users : u.email = email \/ u.username = username

RegisterBegin(i, email, username, password) ==
    /\ tasks[i] = IdleTask
    /\ tasks' = [tasks EXCEPT ![i] =
                    [IdleTask EXCEPT !.op = "register", !.pc = "select_email",
                                     !.email = email, !.username = username,
                                     !.password = password]]
    /\ UNCHANGED <<now, authVars, dataVars, resp>>

\* "existing_user = await db.execute(select(User).where(User.email == ...))"
RegisterCheckEmail(i) ==
    LET t == tasks[i]
        req == [email |-> t.email, username |-> t.username]
    IN  /\ t.op = "register" /\ t.pc = "select_email"
        /\ UNCHANGED <<now, authVars, dataVars>>
        /\ IF \E u \in users : u.email = t.email
           THEN /\ resp' = Fail("register", req,
                                HTTPException(400, "User with this email already exists"))
                /\ tasks' = [tasks EXCEPT ![i] = Done(t, 400)]
           ELSE /\ tasks' = [tasks EXCEPT ![i] = [t EXCEPT !.pc = "select_username"]]
                /\ UNCHANGED resp

\* "existing_username = await db.execute(select(User).where(User.username
\* == ...))", then db.add(db_user) up to "await db.commit()"
RegisterCheckUsername(i) ==
    LET t == tasks[i]
        req == [email |-> t.email, username |-> t.username]
    IN  /\ t.op = "register" /\ t.pc = "select_username"
        /\ UNCHANGED <<now, authVars, dataVars>>
        /\ IF \E u \in users : u.username = t.username
           THEN /\ resp' = Fail("register", req,
                                HTTPException(400, "Username already taken"))
                /\ tasks' = [tasks EXCEPT ![i] = Done(t, 400)]
           ELSE /\ tasks' = [tasks EXCEPT ![i] = [t EXCEPT !.pc = "commit"]]
                /\ UNCHANGED resp

\* "await db.commit()": the INSERT.  A refused INSERT is rolled back and
\* becomes DatabaseError, which register answers with its "except
\* Exception": 500.
RegisterCommit(i) ==
    LET t == tasks[i]
        req == [email |-> t.email, username |-> t.username]
        db_user == [id |-> nextUserId, email |-> t.email, username |-> t.username,
                    password_hash |-> get_password_hash(t.password),
                    is_active |-> TRUE]
        token == create_access_token(Str(db_user.id), now)
    IN  /\ t.op = "register" /\ t.pc = "commit"
        /\ UNCHANGED <<now, dataVars>>
        /\ IF unique_violation(t.email, t.username)
           THEN /\ resp' = Fail("register", req,
                                HTTPException(500, "Failed to create user"))
                /\ tasks' = [tasks EXCEPT ![i] = Done(t, 500)]
                /\ UNCHANGED authVars
           ELSE /\ nextUserId <= MaxUsers
                /\ Cardinality(issued) < MaxTokens
                /\ users' = users \cup {db_user}
                /\ nextUserId' = nextUserId + 1
                /\ issued' = issued \cup {[token |-> token, user |-> db_user.id, iat |-> now]}
                /\ resp' = Response("register", req, 201, "", FALSE, TokenBody(db_user, token))
                /\ tasks' = [tasks EXCEPT ![i] = Done(t, 201)]

NextRegisterRace ==
    \/ \E i \in TaskIds, e \in Emails, n \in Usernames, p \in Passwords :
          RegisterBegin(i, e, n, p)
    \/ \E i \in TaskIds : RegisterCheckEmail(i)
    \/ \E i \in TaskIds : RegisterCheckUsername(i)
    \/ \E i \in TaskIds : RegisterCommit(i)

SpecRegisterRace == InitAuth /\ [][NextRegisterRace]_vars

-----------------------------------------------------------------------------
(* Storage tree and database rows                                          *)

Path(dir, prefix, n) == [dir |-> dir, prefix |-> prefix, n |-> n]
NoPath == Path("", "", 0)

SegmentById(id) == {x \in segments : x.id = id}
RecordingById(id) == {x \in recordings : x.id = id}
AttemptById(id) == {x \in attempts : x.id = id}

\* FileService.delete_file: nothing to do for a path that does not exist;
\* os.remove raising (path in stuck) becomes the domain FileNotFoundError.
delete_file_raises(path, fs, stuck) == path \in fs /\ path \in stuck
delete_file(path, fs) == fs \ {path}

\* The two delete_file calls made for a segment, in order; an exception in
\* the first skips the second.  [fs: the files left, raised: whether one of
\* the calls raised].
delete_segment_files(segment, fs, stuck) ==
    IF delete_file_raises(segment.file_path, fs, stuck)
    THEN [fs |-> fs, raised |-> TRUE]
    ELSE LET fs1 == delete_file(segment.file_path, fs)
         IN  IF segment.vocal_file_path = NoPath
             THEN [fs |-> fs1, raised |-> FALSE]
             ELSE IF delete_file_raises(segment.vocal_file_path, fs1, stuck)
             THEN [fs |-> fs1, raised |-> TRUE]
             ELSE [fs |-> delete_file(segment.vocal_file_path, fs1), raised |-> FALSE]

MutKeepRecordingReferences(recs, gone) == recs

\* Segment.recordings = relationship("Recording", back_populates="segment")
\* without a delete cascade: when a Segment is deleted the unit of work
\* sets segment_id of its recordings to NULL (the column is nullable).
nullify_recordings(recs, gone) ==
    {IF r.segment_id \in gone THEN [r EXCEPT !.segment_id = NULL] ELSE r : r \in recs}

\* Segment.attempts = relationship("Attempt", back_populates="segment"): the
\* same blanking is tried for attempts that are not themselves deleted, and
\* attempts.segment_id is NOT NULL, so the flush fails.
flush_violates_not_null(atts, gone) == \E a \in atts : a.segment_id \in gone

-----------------------------------------------------------------------------
(* DELETE /api/segments/{id}  (api/segments.py)                            *)

MutDeleteSegmentKeepsAttempts(segment_id) ==
    {}

\* select(Attempt).where(Attempt.segment_id == segment_id)
related_attempts(segment_id) ==
    {a \in attempts : a.segment_id = segment_id}

DeleteSegment(cred, fw, segment_id, stuck, dbOk) ==
    LET req == [cred |-> cred, segment_id |-> segment_id, db_ok |-> dbOk]
        cur == get_current_user(cred, fw)
        found == SegmentById(segment_id)
        segment == CHOOSE x \in found : TRUE
        related == related_attempts(segment_id)
        attempts_deleted == Cardinality(related)
        left == attempts \ related
        removed == delete_segment_files(segment, files, stuck)
    IN  /\ UNCHANGED <<tasks, now, authVars, nextSegmentId, nextRecordingId, nextAttemptId, nextUuid>>
        /\ IF ~cur.ok
           THEN /\ resp' = Fail("delete_segment", req, cur.exc)
                /\ UNCHANGED <<segments, recordings, attempts, files>>
           ELSE IF found = {}
           THEN /\ resp' = Fail("delete_segment", req, HTTPException(404, "Segment not found"))
                /\ UNCHANGED <<segments, recordings, attempts, files>>
           ELSE IF segment.user_id # cur.user.id
           THEN /\ resp' = Fail("delete_segment", req,
                                HTTPException(403, "Access denied: You can only delete your own segments"))
                /\ UNCHANGED <<segments, recordings, attempts, files>>
           ELSE /\ files' = removed.fs
                /\ IF ~dbOk \/ flush_violates_not_null(left, {segment_id})
                   THEN \* commit raised: db.rollback(), 500
                        /\ resp' = Fail("delete_segment", req,
                                        HTTPException(500, "Failed to delete segment"))
                        /\ UNCHANGED <<segments, recordings, attempts>>
                   ELSE /\ attempts' = left
                        /\ recordings' = nullify_recordings(recordings, {segment_id})
                        /\ segments' = segments \ found
                        /\ resp' = Response("delete_segment", req, 200,
                                            "Segment and N associated attempt(s) deleted successfully",
                                            FALSE,
                                            [kind |-> "deleted", n |-> attempts_deleted])

-----------------------------------------------------------------------------
(* DELETE /api/segments/{id}, one suspension point at a time.  Each        *)
(* request has a database session of its own (get_db).                     *)

\* The request arrives and its dependencies are resolved.
DeleteSegmentBegin(i, cred, fw, segment_id) ==
    LET req == [cred |-> cred, segment_id |-> segment_id, db_ok |-> TRUE]
        cur == get_current_user(cred, fw)
    IN  /\ tasks[i] = IdleTask
        /\ UNCHANGED <<now, authVars, dataVars>>
        /\ IF ~cur.ok
           THEN /\ resp' = Fail("delete_segment", req, cur.exc)
                /\ UNCHANGED tasks
           ELSE /\ tasks' = [tasks EXCEPT ![i] =
                               [IdleTask EXCEPT !.op = "delete_segment",
                                                !.pc = "select_segment",
                                                !.user = cur.user.id,
                                                !.sid = segment_id]]
                /\ UNCHANGED resp

\* "result = await db.execute(select(Segment)...)" and the two checks on it.
DeleteSegmentSelect(i) ==
    LET t == tasks[i]
        req == [user |-> t.user, segment_id |-> t.sid]
        found == SegmentById(t.sid)
        segment == CHOOSE x \in found : TRUE
    IN  /\ t.op = "delete_segment" /\ t.pc = "select_segment"
        /\ UNCHANGED <<now, authVars, dataVars>>
        /\ IF found = {}
           THEN /\ resp' = Fail("delete_segment", req,
                                HTTPException(404, "Segment not found"))
                /\ tasks' = [tasks EXCEPT ![i] = Done(t, 404)]
           ELSE IF segment.user_id # t.user
           THEN /\ resp' = Fail("delete_segment", req,
                                HTTPException(403, "Access denied: You can only delete your own segments"))
                /\ tasks' = [tasks EXCEPT ![i] = Done(t, 403)]
           ELSE /\ tasks' = [tasks EXCEPT ![i] =
                               [t EXCEPT !.pc = "select_attempts", !.segment = found]]
                /\ UNCHANGED resp

\* "attempts_result = await db.execute(select(Attempt)...)", then, without
\* suspending, the attempts and the segment are marked deleted in the
\* session and the files are removed, up to "await db.commit()".
DeleteSegmentSelectAttempts(i) ==
    LET t == tasks[i]
        segment == CHOOSE x \in t.segment : TRUE
    IN  /\ t.op = "delete_segment" /\ t.pc = "select_attempts"
        /\ UNCHANGED <<now, authVars, segments, nextSegmentId, recordings,
                       nextRecordingId, attempts, nextAttemptId, nextUuid, resp>>
        /\ files' = delete_segment_files(segment, files, {}).fs
        /\ tasks' = [tasks EXCEPT ![i] =
                        [t EXCEPT !.pc = "commit", !.related = related_attempts(t.sid)]]

\* "await db.commit()": the flush deletes the marked rows by primary key.  A
\* DELETE that matches no row because another session has removed it is not
\* an error for the ORM (it warns); attempts that refer to the segment and
\* are not marked are blanked, which attempts.segment_id forbids.
DeleteSegmentCommit(i) ==
    LET t == tasks[i]
        req == [user |-> t.user, segment_id |-> t.sid]
        left == attempts \ t.related
    IN  /\ t.op = "delete_segment" /\ t.pc = "commit"
        /\ UNCHANGED <<now, authVars, nextSegmentId, nextRecordingId, nextAttemptId,
                       files, nextUuid>>
        /\ IF flush_violates_not_null(left, {t.sid})
           THEN /\ resp' = Fail("delete_segment", req,
                                HTTPException(500, "Failed to delete segment"))
                /\ tasks' = [tasks EXCEPT ![i] = Done(t, 500)]
                /\ UNCHANGED <<segments, recordings, attempts>>
           ELSE /\ attempts' = left
                /\ recordings' = nullify_recordings(recordings, {t.sid})
                /\ segments' = segments \ t.segment
                /\ resp' = Response("delete_segment", req, 200,
                                    "Segment and N associated attempt(s) deleted successfully",
                                    FALSE,
                                    [kind |-> "deleted", n |-> Cardinality(t.related)])
                /\ tasks' = [tasks EXCEPT ![i] = Done(t, 200)]

-----------------------------------------------------------------------------
(* DELETE /api/attempts/{id}  (api/attempts.py)                            *)

DeleteAttempt(cred, fw, attempt_id) ==
    LET req == [cred |-> cred, attempt_id |-> attempt_id]
        cur == get_current_user(cred, fw)
        found == AttemptById(attempt_id)
        attempt == CHOOSE x \in found : TRUE
    IN  /\ UNCHANGED <<tasks, now, authVars, segments, nextSegmentId, recordings,
                       nextRecordingId, nextAttemptId, files, nextUuid>>
        /\ IF ~cur.ok
           THEN /\ resp' = Fail("delete_attempt", req, cur.exc)
                /\ UNCHANGED attempts
           ELSE IF found = {}
           THEN /\ resp' = Fail("delete_attempt", req, HTTPException(404, "Attempt not found"))
                /\ UNCHANGED attempts
           ELSE IF attempt.user_id # cur.user.id
           THEN /\ resp' = Fail("delete_attempt", req,
                                HTTPException(403, "Not authorized to delete this attempt"))
                /\ UNCHANGED attempts
           ELSE /\ attempts' = attempts \ found
                /\ resp' = Response("delete_attempt", req, 200,
                                    "Attempt deleted successfully", FALSE,
                                    [kind |-> "attempt_id", id |-> attempt_id])

-----------------------------------------------------------------------------
(* GET /api/attempts/{id} and GET /api/analysis-summary/{id}               *)
(* (api/attempts.py, api/analysis.py)                                      *)

MutAnyoneReadsAttempts(attempt, user) == FALSE

\* "if attempt.user_id != current_user.id" of the two read endpoints
attempt_not_owned(attempt, user) == attempt.user_id # user.id

\* GET /api/attempts/{id}: AttemptResponse with every field of the row.
GetAttempt(cred, fw, attempt_id) ==
    LET req == [cred |-> cred, attempt_id |-> attempt_id]
        cur == get_current_user(cred, fw)
        found == AttemptById(attempt_id)
        attempt == CHOOSE x \in found : TRUE
    IN  /\ UNCHANGED <<tasks, now, authVars, dataVars>>
        /\ resp' =
             IF ~cur.ok THEN Fail("get_attempt", req, cur.exc)
             ELSE IF found = {}
             THEN Fail("get_attempt", req, HTTPException(404, "Attempt not found"))
             ELSE IF attempt_not_owned(attempt, cur.user)
             THEN Fail("get_attempt", req,
                       HTTPException(403, "Not authorized to view this attempt"))
             ELSE Response("get_attempt", req, 200, "", FALSE,
                           [kind |-> "attempt", attempt |-> attempt])

\* GET /api/analysis-summary/{id}: the scores and the detailed analysis.
GetAnalysisSummary(cred, fw, attempt_id) ==
    LET req == [cred |-> cred, attempt_id |-> attempt_id]
        cur == get_current_user(cred, fw)
        found == AttemptById(attempt_id)
        attempt == CHOOSE x \in found : TRUE
    IN  /\ UNCHANGED <<tasks, now, authVars, dataVars>>
        /\ resp' =
             IF ~cur.ok THEN Fail("get_analysis_summary", req, cur.exc)
             ELSE IF found = {}
             THEN Fail("get_analysis_summary", req,
                       HTTPException(404, "Attempt not found"))
             ELSE IF attempt_not_owned(attempt, cur.user)
             THEN Fail("get_analysis_summary", req,
                       HTTPException(403, "Not authorized to view this attempt"))
             ELSE Response("get_analysis_summary", req, 200, "", FALSE,
                           [kind |-> "summary",
                            attempt_id |-> attempt.id,
                            overall_score |-> attempt.overall_score,
                            pitch_accuracy |-> attempt.pitch_accuracy,
                            rhythm_accuracy |-> attempt.rhythm_accuracy,
                            tone_similarity |-> attempt.tone_similarity,
                            timing_accuracy |-> attempt.timing_accuracy,
                            detailed_analysis |-> attempt.detailed_analysis])

-----------------------------------------------------------------------------
(* GET /api/segments and GET /api/segments/{id} (api/segments.py)          *)

\* The users whose is_superuser flag is set in this deployment.
Superusers == {2}

\* User.is_superuser
is_superuser(user) == user.id \in Superusers

\* Segment.created_at: the instant of the insert, the same instant that
\* create_segment_record adds the retention window to for expires_at.
created_at(segment) == segment.expires_at - Retention

\* "order_by(Segment.created_at.desc())": the orders the database may return
\* the rows in.
newest_first(rows) ==
    {q \in [1..Cardinality(rows) -> rows] :
        /\ \A i, j \in 1..Cardinality(rows) : i # j => q[i] # q[j]
        /\ \A i, j \in 1..Cardinality(rows) :
              i < j => created_at(q[i]) >= created_at(q[j])}

MutOwnerlessSegmentsOpen(segment, user) ==
    segment.user_id \notin {NULL, user.id} /\ ~is_superuser(user)

\* "if segment.user_id != current_user.id and not current_user.is_superuser"
segment_access_denied(segment, user) ==
    segment.user_id # user.id /\ ~is_superuser(user)

ListSegments(cred, fw) ==
    LET req == [cred |-> cred]
        cur == get_current_user(cred, fw)
        rows == {x \in segments : x.user_id = cur.user.id}
    IN  /\ UNCHANGED <<tasks, now, authVars, dataVars>>
        /\ IF ~cur.ok
           THEN resp' = Fail("list_segments", req, cur.exc)
           ELSE \E q \in newest_first(rows) :
                   resp' = Response("list_segments", req, 200, "", FALSE,
                                    [kind |-> "segments", rows |-> q])

GetSegment(cred, fw, segment_id) ==
    LET req == [cred |-> cred, segment_id |-> segment_id]
        cur == get_current_user(cred, fw)
        found == SegmentById(segment_id)
        segment == CHOOSE x \in found : TRUE
    IN  /\ UNCHANGED <<tasks, now, authVars, dataVars>>
        /\ resp' =
             IF ~cur.ok THEN Fail("get_segment", req, cur.exc)
             ELSE IF found = {}
             THEN Fail("get_segment", req, HTTPException(404, "Segment not found"))
             ELSE IF segment_access_denied(segment, cur.user)
             THEN Fail("get_segment", req,
                       HTTPException(403, "Access denied: You can only access your own segments"))
             ELSE Response("get_segment", req, 200, "", FALSE,
                           [kind |-> "segment", segment |-> segment])

-----------------------------------------------------------------------------
(* GET /api/recording/{id} (api/recording.py)                              *)

\* "if current_user and recording.user_id != current_user.id"
recording_forbidden(recording, user) ==
    user # NoUser /\ recording.user_id # user.id

GetRecording(cred, fw, recording_id) ==
    LET req == [cred |-> cred, recording_id |-> recording_id]
        cur == get_optional_user(cred, fw)
        found == RecordingById(recording_id)
        recording == CHOOSE x \in found : TRUE
    IN  /\ UNCHANGED <<tasks, now, authVars, dataVars>>
        /\ resp' =
             IF ~cur.ok THEN Fail("get_recording", req, cur.exc)
             ELSE IF found = {}
             THEN Fail("get_recording", req, HTTPException(404, "Recording not found"))
             ELSE IF recording_forbidden(recording, cur.user)
             THEN Fail("get_recording", req,
                       HTTPException(403, "Not authorized to access this recording"))
             ELSE Response("get_recording", req, 200, "", FALSE,
                           [kind |-> "recording", recording |-> recording])

-----------------------------------------------------------------------------
(* POST /api/cleanup-expired  (api/upload.py, FileService)                 *)

\* select(Segment).where(Segment.expires_at < datetime.utcnow())
expired_segments == {x \in segments : x.expires_at # NULL /\ x.expires_at < now}

\* The loop of cleanup_expired_files.  The segments are independent of one
\* another: each is marked for deletion and counted unless one of its
\* delete_file calls raised.
RECURSIVE cleanup_files(_, _, _)
cleanup_files(todo, fs, stuck) ==
    IF todo = {} THEN fs
    ELSE LET x == CHOOSE y \in todo : TRUE
         IN  cleanup_files(todo \ {x}, delete_segment_files(x, fs, stuck).fs, stuck)

cleanup_marked(stuck) ==
    {x \in expired_segments : ~delete_segment_files(x, files, stuck).raised}

CleanupExpired(cred, fw, stuck) ==
    LET req == [cred |-> cred]
        cur == get_optional_user(cred, fw)
        marked == cleanup_marked(stuck)
        gone == {x.id : x \in marked}
        deleted_count == Cardinality(marked)
    IN  /\ UNCHANGED <<tasks, now, authVars, nextSegmentId, nextRecordingId, nextAttemptId, nextUuid>>
        /\ IF ~cur.ok
           THEN /\ resp' = Fail("cleanup_expired", req, cur.exc)
                /\ UNCHANGED <<segments, recordings, attempts, files>>
           ELSE /\ files' = cleanup_files(expired_segments, files, stuck)
                /\ UNCHANGED attempts
                /\ IF flush_violates_not_null(attempts, gone)
                   THEN \* db.commit() raised: nothing is committed, 500
                        /\ resp' = Fail("cleanup_expired", req,
                                        HTTPException(500, "Cleanup failed"))
                        /\ UNCHANGED <<segments, recordings>>
                   ELSE /\ segments' = segments \ marked
                        /\ recordings' = nullify_recordings(recordings, gone)
                        /\ resp' = Response("cleanup_expired", req, 200,
                                            "Cleaned up N expired segments", FALSE,
                                            [kind |-> "deleted_count", n |-> deleted_count])

-----------------------------------------------------------------------------
(* POST /api/analyze  (api/analysis.py)                                    *)

\* AudioProcessor.get_audio_info: librosa raises for a file it cannot read;
\* there is no falsy return value.
get_audio_info_raises(path) == path \notin files

\* What AudioAnalyzer.analyze_singing_similarity can return: the result dict
\* (duration_warning "absent" when the key is not in it).
EngineResultA ==
    [overall_score |-> 82, pitch_accuracy |-> 75, rhythm_accuracy |-> 90,
     tone_similarity |-> 80, timing_accuracy |-> 95,
     detailed_analysis |-> "analysis-A", duration_warning |-> "absent"]

EngineResultB ==
    [overall_score |-> 31, pitch_accuracy |-> 20, rhythm_accuracy |-> 40,
     tone_similarity |-> 35, timing_accuracy |-> 50,
     detailed_analysis |-> "analysis-B", duration_warning |-> "critical"]

EngineResults == {EngineResultA, EngineResultB}

EngineError == [overall_score |-> -1, pitch_accuracy |-> -1, rhythm_accuracy |-> -1,
                tone_similarity |-> -1, timing_accuracy |-> -1,
                detailed_analysis |-> "ProcessingError", duration_warning |-> "absent"]

SeparationOutcomes == {"ok", "no_vocals", "error"}

\* schemas/attempt.py AttemptResponse: no field has a default, so each one
\* must be given to the constructor (Optional[...] allows None, not absence).
AttemptResponseFields ==
    {"id", "user_id", "segment_id", "recording_id", "overall_score",
     "pitch_accuracy", "rhythm_accuracy", "tone_similarity", "timing_accuracy",
     "detailed_analysis", "duration_warning", "analysis_version", "created_at"}

\* The keyword arguments analyze_recording gives to AttemptResponse(...).
analyze_response_kwargs ==
    {"id", "user_id", "segment_id", "recording_id", "overall_score",
     "pitch_accuracy", "rhythm_accuracy", "tone_similarity", "timing_accuracy",
     "detailed_analysis", "analysis_version", "created_at"}

\* pydantic: ValidationError ("Field required") unless every field is given.
response_validates(fields, kwargs) == fields \subseteq kwargs

MutAnalyzeAnyRecording(recording, user) == FALSE

\* "if recording.user_id and recording.user_id != current_user.id"
analyze_forbidden(recording, user) ==
    recording.user_id # NULL /\ recording.user_id # user.id

\* Attempt(user_id=..., ..., detailed_analysis=...): duration_warning is not
\* given, so the column stays NULL.
new_attempt(user, segment, recording, result) ==
    [id |-> nextAttemptId, user_id |-> user.id, segment_id |-> segment.id,
     recording_id |-> recording.id,
     overall_score |-> result.overall_score,
     pitch_accuracy |-> result.pitch_accuracy,
     rhythm_accuracy |-> result.rhythm_accuracy,
     tone_similarity |-> result.tone_similarity,
     timing_accuracy |-> result.timing_accuracy,
     detailed_analysis |-> result.detailed_analysis,
     duration_warning |-> "null"]

AnalyzeRecording(cred, fw, segment_id, recording_id, sep, engine) ==
    LET req == [cred |-> cred, segment_id |-> segment_id,
                recording_id |-> recording_id]
        cur == get_current_user(cred, fw)
        segs == SegmentById(segment_id)
        recs == RecordingById(recording_id)
        segment == CHOOSE x \in segs : TRUE
        recording == CHOOSE x \in recs : TRUE
        separate == recording.vocal_file_path = NoPath
        user_vocals_file == Path("vocals", "vocals_user_recording", recording.id)
        reference_file == IF segment.vocal_file_path # NoPath
                          THEN segment.vocal_file_path ELSE segment.file_path
        files1 == IF separate /\ sep = "ok" THEN files \cup {user_vocals_file} ELSE files
        recordings1 == IF separate /\ sep = "ok"
                       THEN (recordings \ recs) \cup
                              {[recording EXCEPT !.vocal_file_path = user_vocals_file]}
                       ELSE recordings
        attempt == new_attempt(cur.user, segment, recording, engine)
        Stop(exc) == /\ resp' = Fail("analyze", req, exc)
                     /\ UNCHANGED <<recordings, attempts, nextAttemptId, files>>
    IN  /\ UNCHANGED <<tasks, now, authVars, segments, nextSegmentId, nextRecordingId, nextUuid>>
        /\ IF ~cur.ok THEN Stop(cur.exc)
           ELSE IF segs = {} THEN Stop(HTTPException(404, "Segment not found"))
           ELSE IF recs = {} THEN Stop(HTTPException(404, "Recording not found"))
           ELSE IF analyze_forbidden(recording, cur.user)
           THEN Stop(HTTPException(403, "Not authorized to analyze this recording"))
           ELSE IF get_audio_info_raises(segment.file_path)
                     \/ get_audio_info_raises(recording.file_path)
           THEN \* not an HTTPException: the handler's "except Exception"
                Stop(HTTPException(500, "Analysis failed"))
           ELSE IF separate /\ sep = "error"
           THEN \* ProcessingError raised outside the inner try
                Stop(HTTPException(500, "Analysis failed"))
           ELSE /\ files' = files1
                /\ recordings' = recordings1
                /\ IF engine = EngineError \/ reference_file \notin files
                   THEN /\ resp' = Fail("analyze", req, HTTPException(422, "Analysis failed"))
                        /\ UNCHANGED <<attempts, nextAttemptId>>
                   ELSE /\ nextAttemptId <= MaxAttempts
                        /\ attempts' = attempts \cup {attempt}
                        /\ nextAttemptId' = nextAttemptId + 1
                        /\ resp' =
                             IF response_validates(AttemptResponseFields,
                                                   analyze_response_kwargs)
                             THEN Response("analyze", req, 200, "", FALSE,
                                           [kind |-> "attempt", attempt |-> attempt])
                             ELSE \* pydantic ValidationError after the commit
                                  Fail("analyze", req, HTTPException(500, "Analysis failed"))

-----------------------------------------------------------------------------
(* Uploads  (api/upload.py, api/recording.py, FileService, AudioProcessor) *)

allowed_audio_formats == {"wav", "mp3", "m4a", "flac", "ogg", "webm"}
allowed_mime_types == {"audio/wav", "audio/mpeg", "audio/mp4", "audio/flac",
                       "audio/ogg", "audio/webm"}
min_segment_duration == 10
max_segment_duration == 120

\* str.lower() on the extensions the model uploads.
Lower(ext) == IF ext = "WAV" THEN "wav" ELSE IF ext = "TXT" THEN "txt" ELSE ext

\* os.path.splitext(file.filename)[1].lower().lstrip('.')
file_extension(upl) == Lower(upl.ext)

OkExc == HTTPException(200, "")

\* utils/dependencies.py validate_audio_file: the HTTPException it raises,
\* or OkExc.
validate_audio_file(upl) ==
    IF upl.oversize
    THEN create_http_exception(413, "File size exceeds maximum allowed size")
    ELSE IF ~upl.filename
    THEN create_http_exception(400, "No filename provided")
    ELSE IF file_extension(upl) \notin allowed_audio_formats
    THEN create_http_exception(400, "File format not supported")
    ELSE IF upl.ctype # "" /\ upl.ctype \notin allowed_mime_types
    THEN create_http_exception(400, "Content type not supported")
    ELSE OkExc

\* numpy slicing audio_data[start_sample:end_sample] on audio_length samples:
\* a negative index counts from the end, an index past the end stops there.
SliceIndex(i, audio_length) ==
    IF i < 0 THEN (IF audio_length + i < 0 THEN 0 ELSE audio_length + i)
    ELSE IF i > audio_length THEN audio_length ELSE i

\* AudioProcessor.extract_segment: the duration of what is written, at one
\* sample per second.  The slice is taken before the indices are clamped.
extract_segment(start_time, end_time, audio_length) ==
    LET s == SliceIndex(start_time, audio_length)
        e == SliceIndex(end_time, audio_length)
    IN  IF e > s THEN e - s ELSE 0

MutNoMaximumDuration(start_time, end_time) ==
    IF end_time - start_time < min_segment_duration THEN "short" ELSE ""

\* AudioProcessor.process_song: "short" / "long" are its ProcessingErrors.
process_song_error(start_time, end_time) ==
    IF end_time - start_time < min_segment_duration THEN "short"
    ELSE IF end_time - start_time > max_segment_duration THEN "long"
    ELSE ""

Min(a, b) == IF a < b THEN a ELSE b

\* Optional[float]: the empty set is None.
Some(t) == {t}
Value(opt) == CHOOSE t \in opt : TRUE

TempPath(n) == Path("temp", "", n)

\* FileService.save_uploaded_file, after validation: "ok" leaves the whole
\* file, "copy_failed" what open() created, "open_failed" nothing.
saved_files(upl, n) ==
    IF upl.write \in {"ok", "copy_failed"} THEN {TempPath(n)} ELSE {}

\* POST /api/upload-and-process
UploadAndProcess(cred, fw, upl, start_time, end_opt, sep) ==
    LET req == [cred |-> cred, file |-> upl, start_time |-> start_time,
                end_time |-> end_opt, separation |-> sep]
        cur == get_optional_user(cred, fw)
        invalid == validate_audio_file(upl)
        temp_file_path == TempPath(nextUuid)
        end_time == IF end_opt = {} THEN upl.duration
                    ELSE Min(Value(end_opt), upl.duration)
        segment_file_path == Path("segments", "segment", nextUuid)
        vocal_file_path == Path("vocals", "vocals", nextUuid)
        perr == process_song_error(start_time, end_time)
        actual_duration == extract_segment(start_time, end_time, upl.duration)
        segment == [id |-> nextSegmentId,
                    user_id |-> cur.user.id,
                    file_path |-> segment_file_path,
                    vocal_file_path |-> IF sep = "ok" THEN vocal_file_path ELSE NoPath,
                    duration |-> actual_duration,
                    start_time |-> start_time,
                    end_time |-> end_time,
                    expires_at |-> now + Retention]
        Stop(exc) == /\ resp' = Fail("upload_and_process", req, exc)
                     /\ UNCHANGED <<segments, nextSegmentId>>
    IN  /\ UNCHANGED <<tasks, now, authVars, recordings, nextRecordingId, attempts, nextAttemptId>>
        /\ IF ~cur.ok
           THEN Stop(cur.exc) /\ UNCHANGED <<files, nextUuid>>
           ELSE IF ~upl.filename \/ invalid # OkExc
           THEN \* an HTTPException raised inside the handler's try: there is
                \* no "except HTTPException: raise", "except Exception" gets it
                Stop(HTTPException(500, "Upload failed")) /\ UNCHANGED <<files, nextUuid>>
           ELSE /\ nextUuid <= MaxUploads
                /\ nextUuid' = nextUuid + 1
                /\ IF upl.write # "ok"
                   THEN \* ValidationError("Failed to save file")
                        /\ Stop(HTTPException(400, "Failed to save file"))
                        /\ files' = files \cup saved_files(upl, nextUuid)
                   ELSE IF upl.readable = "no_duration"
                   THEN \* librosa.get_duration raised: not a ProcessingError
                        /\ Stop(HTTPException(500, "Upload failed"))
                        /\ files' = files
                   ELSE IF upl.readable = "no_data"
                   THEN \* load_audio raised ProcessingError
                        /\ Stop(HTTPException(422, "Audio processing failed"))
                        /\ files' = files
                   ELSE IF perr # ""
                   THEN /\ Stop(HTTPException(422, "Audio processing failed"))
                        /\ files' = files
                   ELSE IF sep = "error"
                   THEN /\ Stop(HTTPException(422, "Audio processing failed"))
                        /\ files' = files \cup {segment_file_path}
                   ELSE /\ nextSegmentId <= MaxSegments
                        /\ files' = files \cup {segment_file_path}
                                      \cup (IF sep = "ok" THEN {vocal_file_path} ELSE {})
                        /\ segments' = segments \cup {segment}
                        /\ nextSegmentId' = nextSegmentId + 1
                        /\ resp' = Response("upload_and_process", req, 200, "", FALSE,
                                            [kind |-> "segment", segment |-> segment])

\* FileService.create_recording_record: the parameters it declares.
create_recording_record_params ==
    {"db", "user_id", "segment_id", "file_path", "vocal_file_path", "duration",
     "original_filename", "file_format", "sample_rate", "channels"}

\* The keyword arguments upload_recording calls it with.
upload_recording_kwargs ==
    {"db", "user_id", "segment_id", "file_path", "vocal_file_path", "duration",
     "original_filename", "file_format", "file_type", "sample_rate", "channels"}

\* Python: TypeError (unexpected keyword argument) unless each is declared.
call_accepted(params, kwargs) == kwargs \subseteq params

\* POST /api/recording/upload
UploadRecording(cred, fw, upl, segment_id, file_type, start_opt, end_opt, sep) ==
    LET req == [cred |-> cred, file |-> upl, segment_id |-> segment_id,
                file_type |-> file_type, start_time |-> start_opt,
                end_time |-> end_opt, separation |-> sep]
        cur == get_optional_user(cred, fw)
        segs == SegmentById(segment_id)
        segment == CHOOSE x \in segs : TRUE
        invalid == validate_audio_file(upl)
        extract == start_opt # {} /\ end_opt # {}
        end_time == Min(Value(end_opt), upl.duration)
        perr == process_song_error(Value(start_opt), end_time)
        recording_file_path == Path("recordings", "recording", nextUuid)
        vocal_file_path == Path("vocals", "vocals", nextUuid)
        written == {recording_file_path}
                      \cup (IF sep = "ok" THEN {vocal_file_path} ELSE {})
        recording == [id |-> nextRecordingId,
                      user_id |-> cur.user.id,
                      segment_id |-> segment_id,
                      file_path |-> recording_file_path,
                      vocal_file_path |-> IF sep = "ok" THEN vocal_file_path ELSE NoPath,
                      duration |-> IF extract
                                   THEN extract_segment(Value(start_opt), end_time,
                                                        upl.duration)
                                   ELSE upl.duration,
                      file_type |-> file_type]
        Stop(exc) == /\ resp' = Fail("upload_recording", req, exc)
                     /\ UNCHANGED <<recordings, nextRecordingId>>
        Caught == HTTPException(500, "Recording upload failed")
    IN  /\ UNCHANGED <<tasks, now, authVars, segments, nextSegmentId, attempts, nextAttemptId>>
        /\ IF ~cur.ok
           THEN Stop(cur.exc) /\ UNCHANGED <<files, nextUuid>>
           ELSE IF \/ ~upl.filename
                   \/ file_type \notin {"recording", "audio"}
                   \/ (file_type = "audio" /\ ~extract)
                   \/ segs = {}
                   \/ file_extension(upl) \notin allowed_audio_formats
                   \/ invalid # OkExc
           THEN \* each of these raises an HTTPException inside the try, and
                \* "except Exception" turns it into a 500
                Stop(Caught) /\ UNCHANGED <<files, nextUuid>>
           ELSE /\ nextUuid <= MaxUploads
                /\ nextUuid' = nextUuid + 1
                /\ IF upl.write # "ok"
                   THEN /\ Stop(HTTPException(400, "Failed to save file"))
                        /\ files' = files \cup saved_files(upl, nextUuid)
                   ELSE IF upl.readable = "no_duration"
                   THEN /\ Stop(Caught)
                        /\ files' = files
                   ELSE IF upl.readable = "no_data"
                   THEN /\ Stop(HTTPException(422, "Audio processing failed"))
                        /\ files' = files
                   ELSE IF extract /\ perr # ""
                   THEN /\ Stop(HTTPException(422, "Audio processing failed"))
                        /\ files' = files
                   ELSE IF ~extract /\ file_type = "recording"
                             /\ upl.duration > segment.duration
                   THEN /\ Stop(Caught)
                        /\ files' = files
                   ELSE IF sep = "error"
                   THEN /\ Stop(HTTPException(422, "Audio processing failed"))
                        /\ files' = files \cup {recording_file_path}
                   ELSE IF ~call_accepted(create_recording_record_params,
                                          upload_recording_kwargs)
                   THEN \* TypeError: unexpected keyword argument 'file_type'
                        /\ Stop(Caught)
                        /\ files' = files \cup written
                   ELSE /\ files' = files \cup written
                        /\ recordings' = recordings \cup {recording}
                        /\ nextRecordingId' = nextRecordingId + 1
                        /\ resp' = Response("upload_recording", req, 200, "", FALSE,
                                            [kind |-> "recording", recording |-> recording])

-----------------------------------------------------------------------------
(* The service over a database that already holds rows.  Recording rows    *)
(* predate the file_type migration (7fb235905587 gives them the server     *)
(* default 'recording'); the segment they were sung against is there too.  *)

SeedUsers ==
    {[id |-> 1, email |-> "a@x.io", username |-> "ann",
      password_hash |-> get_password_hash([head |-> "pw1", tail |-> ""]),
      is_active |-> TRUE],
     [id |-> 2, email |-> "b@x.io", username |-> "bob",
      password_hash |-> get_password_hash([head |-> "pw2", tail |-> ""]),
      is_active |-> TRUE]}

SeedSegment ==
    [id |-> 1, user_id |-> 1,
     file_path |-> Path("segments", "segment", 0),
     vocal_file_path |-> Path("vocals", "vocals", 0),
     duration |-> 30, start_time |-> 0, end_time |-> 30,
     expires_at |-> Retention - 1]

SeedRecording(id, user_id, segment_id) ==
    [id |-> id, user_id |-> user_id, segment_id |-> segment_id,
     file_path |-> Path("recordings", "recording", 0 - id),
     vocal_file_path |-> NoPath, duration |-> 20, file_type |-> "recording"]

Init ==
    /\ users = SeedUsers
    /\ nextUserId = 3
    /\ issued = {}
    /\ now = 0
    /\ segments = {SeedSegment}
    /\ nextSegmentId = 2
    /\ recordings = {SeedRecording(1, 1, 1), SeedRecording(2, NULL, NULL)}
    /\ nextRecordingId = 3
    /\ attempts = {}
    /\ nextAttemptId = 1
    /\ files = {SeedSegment.file_path, SeedSegment.vocal_file_path,
                Path("recordings", "recording", 0 - 1),
                Path("recordings", "recording", 0 - 2)}
    /\ nextUuid = 1
    /\ resp = Response("init", [none |-> TRUE], 0, "", FALSE, NoBody)
    /\ tasks = NoTasks

\* What the clients of this deployment send: no header, a token that does
\* not decode, and the tokens its two users got at login.
DataCredentials ==
    {NoHeader, Bearer(Malformed)}
        \cup {Bearer(create_access_token(Str(u.id), 0)) : u \in SeedUsers}

GoodUpload == [filename |-> TRUE, ext |-> "WAV", oversize |-> FALSE,
               ctype |-> "audio/wav", duration |-> 30, write |-> "ok",
               readable |-> "ok"]

SegmentIds == 1..MaxSegments
RecordingIds == 1..3
AttemptIds == 1..MaxAttempts

\* The instants the clock of this deployment is observed at: while the seeded
\* segment is fresh and once it has expired.
DataTimes == {0, Retention}

SegmentPaths == UNION {{x.file_path, x.vocal_file_path} : x \in segments}
StuckChoices == {{}} \cup {{p} : p \in SegmentPaths \ {NoPath}}

\* A request's credential and the FastAPI release that receives it (the
\* release only shows in the answer to a request without a Bearer header).
DataCallers ==
    {<<c, 403>> : c \in DataCredentials} \cup {<<NoHeader, 401>>}

\* Analysis and deletion over the seeded rows, with every variant of their
\* inputs.
NextAnalyze ==
    \/ \E k \in DataCallers, sid \in SegmentIds,
          rid \in RecordingIds, sep \in SeparationOutcomes,
          engine \in EngineResults \cup {EngineError} :
          AnalyzeRecording(k[1], k[2], sid, rid, sep, engine)
    \/ \E k \in DataCallers, aid \in AttemptIds :
          DeleteAttempt(k[1], k[2], aid)
    \/ \E k \in DataCallers, sid \in SegmentIds,
          stuck \in StuckChoices, dbOk \in BOOLEAN :
          DeleteSegment(k[1], k[2], sid, stuck, dbOk)

SpecAnalyze == Init /\ [][NextAnalyze]_vars

\* The requests of the whole service, each with few variants of its inputs.
Next ==
    \/ \E k \in DataCallers :
          UploadAndProcess(k[1], k[2], GoodUpload, 0, {}, "ok")
    \/ \E k \in DataCallers,
          sid \in SegmentIds, ft \in {"recording", "video"} :
          UploadRecording(k[1], k[2], GoodUpload, sid, ft, {}, {}, "ok")
    \/ \E k \in DataCallers, sid \in SegmentIds,
          rid \in RecordingIds :
          AnalyzeRecording(k[1], k[2], sid, rid, "ok", EngineResultA)
    \/ \E k \in DataCallers, aid \in AttemptIds :
          DeleteAttempt(k[1], k[2], aid)
    \/ \E k \in DataCallers, sid \in SegmentIds,
          dbOk \in BOOLEAN :
          DeleteSegment(k[1], k[2], sid, {}, dbOk)
    \/ \E k \in DataCallers :
          CleanupExpired(k[1], k[2], {})
    \/ TickTo(DataTimes)

Spec == Init /\ [][Next]_vars

-----------------------------------------------------------------------------
(* POST /api/upload-and-process and POST /api/analyze, one suspension      *)
(* point at a time (a good upload of the whole file; a successful engine). *)

UploadBegin(i, cred, fw) ==
    LET req == [cred |-> cred]
        cur == get_optional_user(cred, fw)
    IN  /\ tasks[i] = IdleTask
        /\ ~loop_busy(i)
        /\ UNCHANGED <<now, authVars, dataVars>>
        /\ IF ~cur.ok
           THEN /\ resp' = Fail("upload_and_process", req, cur.exc)
                /\ UNCHANGED tasks
           ELSE \* suspended in save_uploaded_file at "await file.read()"
                /\ tasks' = [tasks EXCEPT ![i] =
                               [IdleTask EXCEPT !.op = "upload_and_process",
                                                !.pc = "file_read",
                                                !.user = cur.user.id]]
                /\ UNCHANGED resp

\* The upload has been read: the temp file is written and process_song is
\* called.
UploadProcessSong(i) ==
    LET t == tasks[i]
    IN  /\ t.op = "upload_and_process" /\ t.pc = "file_read"
        /\ ~loop_busy(i)
        /\ nextUuid <= MaxUploads
        /\ nextUuid' = nextUuid + 1
        /\ files' = files \cup {TempPath(nextUuid)}
        /\ tasks' = [tasks EXCEPT ![i] = [t EXCEPT !.pc = "process_song", !.n = nextUuid]]
        /\ UNCHANGED <<now, authVars, segments, nextSegmentId, recordings,
                       nextRecordingId, attempts, nextAttemptId, resp>>

\* process_song returns; create_segment_record reaches "await db.commit()".
UploadJobEnds(i) ==
    LET t == tasks[i]
    IN  /\ t.op = "upload_and_process" /\ t.pc = "process_song"
        /\ ~loop_busy(i)
        /\ files' = files \cup {Path("segments", "segment", t.n),
                                Path("vocals", "vocals", t.n)}
        /\ tasks' = [tasks EXCEPT ![i] = [t EXCEPT !.pc = "commit"]]
        /\ UNCHANGED <<now, authVars, segments, nextSegmentId, recordings,
                       nextRecordingId, attempts, nextAttemptId, nextUuid, resp>>

\* The commit returns, the response is built and the temp file removed.
UploadCommit(i) ==
    LET t == tasks[i]
        segment == [id |-> nextSegmentId,
                    user_id |-> t.user,
                    file_path |-> Path("segments", "segment", t.n),
                    vocal_file_path |-> Path("vocals", "vocals", t.n),
                    duration |-> extract_segment(0, GoodUpload.duration, GoodUpload.duration),
                    start_time |-> 0,
                    end_time |-> GoodUpload.duration,
                    expires_at |-> now + Retention]
    IN  /\ t.op = "upload_and_process" /\ t.pc = "commit"
        /\ ~loop_busy(i)
        /\ nextSegmentId <= MaxSegments
        /\ segments' = segments \cup {segment}
        /\ nextSegmentId' = nextSegmentId + 1
        /\ files' = files \ {TempPath(t.n)}
        /\ resp' = Response("upload_and_process", [user |-> t.user], 200, "", FALSE,
                            [kind |-> "segment", segment |-> segment])
        /\ tasks' = [tasks EXCEPT ![i] = Done(t, 200)]
        /\ UNCHANGED <<now, authVars, recordings, nextRecordingId, attempts,
                       nextAttemptId, nextUuid>>

AnalyzeBegin(i, cred, fw, segment_id, recording_id) ==
    LET req == [cred |-> cred, segment_id |-> segment_id,
                recording_id |-> recording_id]
        cur == get_current_user(cred, fw)
    IN  /\ tasks[i] = IdleTask
        /\ ~loop_busy(i)
        /\ UNCHANGED <<now, authVars, dataVars>>
        /\ IF ~cur.ok
           THEN /\ resp' = Fail("analyze", req, cur.exc)
                /\ UNCHANGED tasks
           ELSE \* suspended at "await db.get(Segment, ...)"
                /\ tasks' = [tasks EXCEPT ![i] =
                               [IdleTask EXCEPT !.op = "analyze", !.pc = "db_get",
                                                !.user = cur.user.id,
                                                !.sid = segment_id,
                                                !.rid = recording_id]]
                /\ UNCHANGED resp

\* Both rows are loaded and checked; then separate_vocals is called if the
\* recording has no vocal file yet, analyze_singing_similarity otherwise.
AnalyzeLoaded(i) ==
    LET t == tasks[i]
        req == [user |-> t.user, segment_id |-> t.sid, recording_id |-> t.rid]
        segs == SegmentById(t.sid)
        recs == RecordingById(t.rid)
        segment == CHOOSE x \in segs : TRUE
        recording == CHOOSE x \in recs : TRUE
        Stop(exc) == /\ resp' = Fail("analyze", req, exc)
                     /\ tasks' = [tasks EXCEPT ![i] = Done(t, exc.status)]
    IN  /\ t.op = "analyze" /\ t.pc = "db_get"
        /\ ~loop_busy(i)
        /\ UNCHANGED <<now, authVars, dataVars>>
        /\ IF segs = {} THEN Stop(HTTPException(404, "Segment not found"))
           ELSE IF recs = {} THEN Stop(HTTPException(404, "Recording not found"))
           ELSE IF analyze_forbidden(recording, [id |-> t.user])
           THEN Stop(HTTPException(403, "Not authorized to analyze this recording"))
           ELSE IF get_audio_info_raises(segment.file_path)
                     \/ get_audio_info_raises(recording.file_path)
           THEN Stop(HTTPException(500, "Analysis failed"))
           ELSE /\ tasks' = [tasks EXCEPT ![i] =
                               [t EXCEPT !.pc = IF recording.vocal_file_path = NoPath
                                                THEN "separate_vocals"
                                                ELSE "analyze_singing_similarity",
                                         !.segment = segs, !.recording = recs]]
                /\ UNCHANGED resp

\* separate_vocals returns True: the vocal file exists, the recording is
\* given its path and the handler reaches "await db.commit()".
AnalyzeSeparated(i) ==
    LET t == tasks[i]
    IN  /\ t.op = "analyze" /\ t.pc = "separate_vocals"
        /\ ~loop_busy(i)
        /\ files' = files \cup {Path("vocals", "vocals_user_recording", t.rid)}
        /\ tasks' = [tasks EXCEPT ![i] = [t EXCEPT !.pc = "commit_vocals"]]
        /\ UNCHANGED <<now, authVars, segments, nextSegmentId, recordings,
                       nextRecordingId, attempts, nextAttemptId, nextUuid, resp>>

\* That commit returns and analyze_singing_similarity is called.
AnalyzeVocalsCommitted(i) ==
    LET t == tasks[i]
    IN  /\ t.op = "analyze" /\ t.pc = "commit_vocals"
        /\ ~loop_busy(i)
        /\ recordings' =
              {IF r.id = t.rid
               THEN [r EXCEPT !.vocal_file_path =
                                 Path("vocals", "vocals_user_recording", t.rid)]
               ELSE r : r \in recordings}
        /\ tasks' = [tasks EXCEPT ![i] = [t EXCEPT !.pc = "analyze_singing_similarity"]]
        /\ UNCHANGED <<now, authVars, segments, nextSegmentId, nextRecordingId,
                       attempts, nextAttemptId, files, nextUuid, resp>>

\* analyze_singing_similarity returns; the Attempt is added and the handler
\* reaches "await db.commit()".
AnalyzeJobEnds(i) ==
    LET t == tasks[i]
    IN  /\ t.op = "analyze" /\ t.pc = "analyze_singing_similarity"
        /\ ~loop_busy(i)
        /\ tasks' = [tasks EXCEPT ![i] = [t EXCEPT !.pc = "commit"]]
        /\ UNCHANGED <<now, authVars, dataVars, resp>>

\* The Attempt is committed; AttemptResponse(...) is then built without its
\* duration_warning field.
AnalyzeCommit(i, engine) ==
    LET t == tasks[i]
        req == [user |-> t.user, segment_id |-> t.sid, recording_id |-> t.rid]
        attempt == new_attempt([id |-> t.user], [id |-> t.sid], [id |-> t.rid], engine)
    IN  /\ t.op = "analyze" /\ t.pc = "commit"
        /\ ~loop_busy(i)
        /\ nextAttemptId <= MaxAttempts
        /\ attempts' = attempts \cup {attempt}
        /\ nextAttemptId' = nextAttemptId + 1
        /\ resp' = IF response_validates(AttemptResponseFields, analyze_response_kwargs)
                   THEN Response("analyze", req, 200, "", FALSE,
                                 [kind |-> "attempt", attempt |-> attempt])
                   ELSE Fail("analyze", req, HTTPException(500, "Analysis failed"))
        /\ tasks' = [tasks EXCEPT ![i] =
                        Done(t, IF response_validates(AttemptResponseFields,
                                                      analyze_response_kwargs)
                                THEN 200 ELSE 500)]
        /\ UNCHANGED <<now, authVars, segments, nextSegmentId, recordings,
                       nextRecordingId, files, nextUuid>>

-----------------------------------------------------------------------------
(* Attempts: created by analysis, read and deleted by their owners         *)

NextAttempts ==
    \/ \E k \in DataCallers, rid \in RecordingIds, engine \in EngineResults :
          AnalyzeRecording(k[1], k[2], SeedSegment.id, rid, "ok", engine)
    \/ \E k \in DataCallers, aid \in AttemptIds : GetAttempt(k[1], k[2], aid)
    \/ \E k \in DataCallers, aid \in AttemptIds : GetAnalysisSummary(k[1], k[2], aid)
    \/ \E k \in DataCallers, aid \in AttemptIds : DeleteAttempt(k[1], k[2], aid)

SpecAttempts == Init /\ [][NextAttempts]_vars

-----------------------------------------------------------------------------
(* Segments: uploaded by anybody, listed and read by their owners          *)

NextSegments ==
    \/ \E k \in DataCallers : UploadAndProcess(k[1], k[2], GoodUpload, 0, {}, "ok")
    \/ \E k \in DataCallers : ListSegments(k[1], k[2])
    \/ \E k \in DataCallers, sid \in SegmentIds : GetSegment(k[1], k[2], sid)
    \/ TickTo(DataTimes)

SpecSegments == Init /\ [][NextSegments]_vars

-----------------------------------------------------------------------------
(* Recordings: read one at a time and listed                               *)

NextRecordings ==
    \/ \E k \in DataCallers, rid \in RecordingIds : GetRecording(k[1], k[2], rid)
    \/ \E k \in DataCallers : GetRecordings(k[1], k[2])
    \/ \E k \in DataCallers, sid \in SegmentIds, dbOk \in BOOLEAN :
          DeleteSegment(k[1], k[2], sid, {}, dbOk)
    \/ TickTo(DataTimes)

SpecRecordings == Init /\ [][NextRecordings]_vars

-----------------------------------------------------------------------------
(* Expiry: segments uploaded, analysed against, and swept once expired     *)

\* The instants the sweep is observed at: before anything has expired, once
\* the seeded segment has, and once a segment uploaded at 0 has too.
CleanupTimes == {0, Retention, Retention + 1}

NextCleanup ==
    \/ \E k \in DataCallers : UploadAndProcess(k[1], k[2], GoodUpload, 0, {}, "ok")
    \/ \E k \in DataCallers, rid \in RecordingIds :
          AnalyzeRecording(k[1], k[2], SeedSegment.id, rid, "ok", EngineResultA)
    \/ \E k \in DataCallers, stuck \in StuckChoices : CleanupExpired(k[1], k[2], stuck)
    \/ TickTo(CleanupTimes)

SpecCleanup == Init /\ [][NextCleanup]_vars

-----------------------------------------------------------------------------
(* Two DELETE /api/segments/{id} requests in flight at once                *)

NextDeleteRace ==
    \/ \E k \in DataCallers, rid \in RecordingIds :
          /\ tasks = NoTasks
          /\ AnalyzeRecording(k[1], k[2], SeedSegment.id, rid, "ok", EngineResultA)
    \/ \E i \in TaskIds, k \in DataCallers, sid \in SegmentIds :
          DeleteSegmentBegin(i, k[1], k[2], sid)
    \/ \E i \in TaskIds : DeleteSegmentSelect(i)
    \/ \E i \in TaskIds : DeleteSegmentSelectAttempts(i)
    \/ \E i \in TaskIds : DeleteSegmentCommit(i)

SpecDeleteRace == Init /\ [][NextDeleteRace]_vars

-----------------------------------------------------------------------------
(* Uploads, analyses and reads sharing the event loop                      *)

NextLoop ==
    \/ \E i \in TaskIds, k \in DataCallers : UploadBegin(i, k[1], k[2])
    \/ \E i \in TaskIds : UploadProcessSong(i)
    \/ \E i \in TaskIds : UploadJobEnds(i)
    \/ \E i \in TaskIds : UploadCommit(i)
    \/ \E i \in TaskIds, k \in DataCallers, rid \in RecordingIds :
          AnalyzeBegin(i, k[1], k[2], SeedSegment.id, rid)
    \/ \E i \in TaskIds : AnalyzeLoaded(i)
    \/ \E i \in TaskIds : AnalyzeSeparated(i)
    \/ \E i \in TaskIds : AnalyzeVocalsCommitted(i)
    \/ \E i \in TaskIds : AnalyzeJobEnds(i)
    \/ \E i \in TaskIds : AnalyzeCommit(i, EngineResultA)
    \/ \E k \in DataCallers, sid \in SegmentIds :
          ~loop_busy(0) /\ GetSegment(k[1], k[2], sid)

SpecLoop == Init /\ [][NextLoop]_vars

-----------------------------------------------------------------------------
(* AudioAnalyzer.analyze_singing_similarity (services/analyzer.py): the    *)
(* duration check and the pitch comparison.  Durations are whole seconds.  *)
(* pyin reports f0 on a grid of a tenth of a semitone, so a pitch is its   *)
(* position on that grid and 0 stands for 0.0 (unvoiced); a semitone       *)
(* difference is then a whole number of tenths.                            *)

Abs(x) == IF x < 0 THEN 0 - x ELSE x

\* "user_duration / ref_duration if ref_duration > 0 else 0", as a fraction
duration_ratio(user_duration, ref_duration) ==
    IF ref_duration > 0 THEN [num |-> user_duration, den |-> ref_duration]
    ELSE [num |-> 0, den |-> 1]

MutWarnAtHalf(user_duration, ref_duration) ==
    IF 2 * duration_ratio(user_duration, ref_duration).num
          <= duration_ratio(user_duration, ref_duration).den
    THEN "critical" ELSE "None"

\* "if duration_ratio < 0.5: duration_warning = {...}", None otherwise
duration_warning(user_duration, ref_duration) ==
    IF 2 * duration_ratio(user_duration, ref_duration).num
          < duration_ratio(user_duration, ref_duration).den
    THEN "critical" ELSE "None"

\* p_user: None once the reference time is past the end of the recording
p_user(point, user_duration) ==
    IF point.time <= user_duration THEN {point.user} ELSE {}

\* abs(12 * np.log2(p_user / p_ref)), in tenths of a semitone
diff_semi(user_pitch, ref_pitch) == Abs(user_pitch - ref_pitch)

\* Whether the point gets past
\* "if p_ref > 0 and p_user is not None and p_user > 0"
compared(point, user_duration) ==
    /\ point.ref > 0
    /\ p_user(point, user_duration) # {}
    /\ \A p \in p_user(point, user_duration) : p > 0

\* The loop over the sampled alignment points: semitone_errors and
\* notes_matched ("if diff_semi < 0.5").
RECURSIVE pitch_loop(_, _, _, _)
pitch_loop(points, user_duration, semitone_errors, notes_matched) ==
    IF points = <<>>
    THEN [semitone_errors |-> semitone_errors, notes_matched |-> notes_matched]
    ELSE LET point == Head(points)
             d == diff_semi(point.user, point.ref)
         IN  IF compared(point, user_duration)
             THEN pitch_loop(Tail(points), user_duration,
                             Append(semitone_errors, d),
                             IF d < 5 THEN notes_matched + 1 ELSE notes_matched)
             ELSE pitch_loop(Tail(points), user_duration, semitone_errors,
                             notes_matched)

RECURSIVE SumSeq(_)
SumSeq(q) == IF q = <<>> THEN 0 ELSE Head(q) + SumSeq(Tail(q))

\* "max(0, 100 - (np.mean(semitone_errors) * 15)) if semitone_errors else 0",
\* in hundredths of a point
pitch_score(semitone_errors) ==
    IF semitone_errors = <<>> THEN 0
    ELSE LET penalty == (150 * SumSeq(semitone_errors)) \div Len(semitone_errors)
         IN  IF penalty > 10000 THEN 0 ELSE 10000 - penalty

\* The part of the result dict that the duration check and the pitch
\* comparison decide.
analyze_singing_similarity(ref_duration, user_duration, points) ==
    LET warning == duration_warning(user_duration, ref_duration)
        loop == pitch_loop(points, user_duration, <<>>, 0)
    IN  [kind |-> "analysis",
         pitch_accuracy |-> pitch_score(loop.semitone_errors),
         notes_matched |-> loop.notes_matched,
         notes_total |-> Len(loop.semitone_errors),
         semitone_errors |-> loop.semitone_errors,
         duration_warning |-> IF warning # "None" THEN warning ELSE "absent"]

Durations == 0..MaxDuration

\* f0 of the reference and of the recording at a sampled point: unvoiced, or
\* apart by 0, 0.4, 0.5 and 0.6 semitones.
RefPitches == {0, 40}
UserPitches == {0, 40, 44, 45, 46}

AlignmentPoints ==
    [time : {0, MaxDuration - 1}, ref : RefPitches, user : UserPitches]

PointLists == UNION {[1..n -> AlignmentPoints] : n \in 0..MaxPoints}

EngineCalls ==
    [ref_duration : Durations, user_duration : Durations, points : PointLists]

\* The engine is called with two loaded signals ...
InitEngine ==
    /\ users = SeedUsers
    /\ nextUserId = 3
    /\ issued = {}
    /\ now = 0
    /\ segments = {SeedSegment}
    /\ nextSegmentId = 2
    /\ recordings = {SeedRecording(1, 1, 1), SeedRecording(2, NULL, NULL)}
    /\ nextRecordingId = 3
    /\ attempts = {}
    /\ nextAttemptId = 1
    /\ files = {SeedSegment.file_path, SeedSegment.vocal_file_path,
                Path("recordings", "recording", 0 - 1),
                Path("recordings", "recording", 0 - 2)}
    /\ nextUuid = 1
    /\ tasks = NoTasks
    /\ \E call \in EngineCalls :
          resp = Response("call", call, 0, "", FALSE, NoBody)

\* ... and returns its result.
AnalyzeSingingSimilarity ==
    /\ resp.op = "call"
    /\ resp' = Response("analyze_singing_similarity", resp.req, 0, "", FALSE,
                        analyze_singing_similarity(resp.req.ref_duration,
                                                   resp.req.user_duration,
                                                   resp.req.points))
    /\ UNCHANGED <<tasks, now, authVars, dataVars>>

NextEngine == AnalyzeSingingSimilarity

SpecEngine == InitEngine /\ [][NextEngine]_vars

-----------------------------------------------------------------------------
(* AudioProcessor.extract_segment (services/audio_processor.py) on its own *)
(* Times are whole numbers of half seconds; a signal is its sample count.  *)

\* int(t * sample_rate) for a time of t half seconds: int() drops the
\* fraction, towards zero.
to_samples(t, sample_rate) ==
    IF t >= 0 THEN (t * sample_rate) \div 2
    ELSE 0 - (((0 - t) * sample_rate) \div 2)

\* audio_data[start_sample:end_sample]: the indices of the samples that
\* segment_data holds, and so the ones sf.write writes.
segment_data(start_time, end_time, audio_length, sample_rate) ==
    LET s == SliceIndex(to_samples(start_time, sample_rate), audio_length)
        e == SliceIndex(to_samples(end_time, sample_rate), audio_length)
    IN  {k \in 0..(audio_length - 1) : s <= k /\ k < e}

\* The indices after "Ensure valid bounds" (they are not used again).
valid_bounds(start_time, end_time, audio_length, sample_rate) ==
    LET s0 == to_samples(start_time, sample_rate)
        e0 == to_samples(end_time, sample_rate)
        s == IF s0 > audio_length THEN audio_length ELSE IF s0 < 0 THEN 0 ELSE s0
        e1 == IF e0 > audio_length THEN audio_length ELSE e0
        e == IF e1 < s THEN s ELSE e1
    IN  [start_sample |-> s, end_sample |-> e]

HalfSeconds == (0 - 2)..4
SampleRates == {1, 3}

ExtractCalls ==
    [start_time : HalfSeconds, end_time : HalfSeconds,
     audio_length : 0..MaxSamples, sample_rate : SampleRates]

InitExtract ==
    /\ users = SeedUsers
    /\ nextUserId = 3
    /\ issued = {}
    /\ now = 0
    /\ segments = {SeedSegment}
    /\ nextSegmentId = 2
    /\ recordings = {SeedRecording(1, 1, 1), SeedRecording(2, NULL, NULL)}
    /\ nextRecordingId = 3
    /\ attempts = {}
    /\ nextAttemptId = 1
    /\ files = {SeedSegment.file_path, SeedSegment.vocal_file_path,
                Path("recordings", "recording", 0 - 1),
                Path("recordings", "recording", 0 - 2)}
    /\ nextUuid = 1
    /\ tasks = NoTasks
    /\ \E call \in ExtractCalls :
          resp = Response("call", call, 0, "", FALSE, NoBody)

\* extract_segment writes segment_data and returns
\* len(segment_data) / sample_rate (here: the two numbers of the fraction).
ExtractSegment ==
    LET call == resp.req
        written == segment_data(call.start_time, call.end_time,
                                call.audio_length, call.sample_rate)
    IN  /\ resp.op = "call"
        /\ resp' = Response("extract_segment", call, 0, "", FALSE,
                            [kind |-> "segment_file", samples |-> written,
                             actual_duration |-> [num |-> Cardinality(written),
                                                  den |-> call.sample_rate]])
        /\ UNCHANGED <<tasks, now, authVars, dataVars>>

NextExtract == ExtractSegment

SpecExtract == InitExtract /\ [][NextExtract]_vars

-----------------------------------------------------------------------------
(* The two upload endpoints with every kind of file and of time window    *)

LongUpload == [GoodUpload EXCEPT !.duration = 200]
OversizeUpload == [GoodUpload EXCEPT !.oversize = TRUE]
TextUpload == [GoodUpload EXCEPT !.ext = "TXT"]
WrongTypeUpload == [GoodUpload EXCEPT !.ctype = "text/plain"]
NoNameUpload == [GoodUpload EXCEPT !.filename = FALSE]
CopyFailedUpload == [GoodUpload EXCEPT !.write = "copy_failed"]
OpenFailedUpload == [GoodUpload EXCEPT !.write = "open_failed"]
NoDataUpload == [GoodUpload EXCEPT !.readable = "no_data"]
NoDurationUpload == [GoodUpload EXCEPT !.readable = "no_duration"]

BadUploads == {OversizeUpload, TextUpload, WrongTypeUpload, NoNameUpload,
               CopyFailedUpload, OpenFailedUpload, NoDataUpload, NoDurationUpload}

StartTimes == {0 - 5, 0, 25}
EndTimes == {{}, Some(5), Some(10), Some(120), Some(121)}

\* <<file, start_time, end_time, separation outcome>>
SongRequests ==
    ({GoodUpload, LongUpload} \X StartTimes \X EndTimes \X SeparationOutcomes)
        \cup (BadUploads \X {0} \X {{}} \X {"ok"})

\* <<file, segment_id, file_type, start_time, end_time, separation outcome>>
RecordingRequests ==
    ({GoodUpload} \X SegmentIds \X {"recording", "audio", "video"}
        \X {{}, Some(0)} \X {{}, Some(10)} \X {"ok"})
        \cup ({LongUpload} \X {SeedSegment.id} \X {"recording"} \X {{}} \X {{}} \X {"ok"})
        \cup (BadUploads \X {SeedSegment.id} \X {"recording"} \X {{}} \X {{}} \X {"ok"})
        \cup ({GoodUpload} \X {SeedSegment.id} \X {"recording"} \X {{}} \X {{}}
                \X {"no_vocals", "error"})

\* A request without a header, an anonymous one and one of user 1.
UploadCallers ==
    {<<NoHeader, 403>>, <<Bearer(Malformed), 403>>,
     <<Bearer(create_access_token(Str(1), 0)), 403>>}

NextUpload ==
    \/ \E k \in UploadCallers, r \in SongRequests :
          UploadAndProcess(k[1], k[2], r[1], r[2], r[3], r[4])
    \/ \E k \in UploadCallers, r \in RecordingRequests :
          UploadRecording(k[1], k[2], r[1], r[2], r[3], r[4], r[5], r[6])

SpecUpload == Init /\ [][NextUpload]_vars

-----------------------------------------------------------------------------
(* GET /api/audio/{file_path}  (api/audio.py)                              *)
(* A requested path is a sequence of pieces of text; a location on disk is *)
(* the sequence of names leading to it from "/".                           *)

MaxPathLen == 3

AudioTokens == {"/", "%2F", "%20", "..", "d", "f", "l"}
AudioPaths == UNION {[1..n -> AudioTokens] : n \in 0..MaxPathLen}

\* Path(settings.storage_path).resolve()
storage_root == <<"srv", "storage">>

\* What is on the disk of this deployment: a directory and two audio files
\* under the storage root, a file next to the root, and a symbolic link in
\* the root to that file outside.
Directories == {<<>>, <<"srv">>, storage_root, storage_root \o <<"d">>}
RegularFiles == {<<"srv", "f">>, storage_root \o <<"f">>, storage_root \o <<"d", "f">>}
Symlinks == {storage_root \o <<"l">>}
readlink(loc) == <<"srv", "f">>

\* file_path.replace('%2F', '/').replace('%20', ' ')
decoded_path(file_path) ==
    [i \in 1..Len(file_path) |->
        IF file_path[i] = "%2F" THEN "/"
        ELSE IF file_path[i] = "%20" THEN " "
        ELSE file_path[i]]

\* '..' in decoded_path
contains_dotdot(path) ==
    \E i \in 1..Len(path) :
        \/ path[i] = ".."
        \/ (path[i] = "." /\ i < Len(path) /\ path[i + 1] = ".")

\* decoded_path.startswith('/')
starts_with_slash(path) == Len(path) > 0 /\ path[1] = "/"

\* The components of a path: the text between its slashes.
RECURSIVE path_parts(_, _, _)
path_parts(path, i, part) ==
    IF i > Len(path) THEN <<part>>
    ELSE IF path[i] = "/" THEN <<part>> \o path_parts(path, i + 1, <<>>)
    ELSE path_parts(path, i + 1, Append(part, path[i]))

\* The name a component spells; "other" is any name nothing on disk has.
part_name(part) ==
    IF Len(part) = 1 THEN part[1]
    ELSE IF part = <<".", ".">> THEN ".."
    ELSE "other"

\* Path.resolve(): empty and "." components are dropped, ".." goes to the
\* parent, a symbolic link is replaced by its target, and names that do not
\* exist are kept as written.
RECURSIVE resolve(_, _, _)
resolve(parts, i, loc) ==
    IF i > Len(parts) THEN loc
    ELSE IF parts[i] = <<>> \/ part_name(parts[i]) = "."
    THEN resolve(parts, i + 1, loc)
    ELSE IF part_name(parts[i]) = ".."
    THEN resolve(parts, i + 1,
                 IF loc = <<>> THEN loc ELSE SubSeq(loc, 1, Len(loc) - 1))
    ELSE LET next == Append(loc, part_name(parts[i]))
         IN  resolve(parts, i + 1,
                     IF next \in Symlinks THEN readlink(next) ELSE next)

\* (storage_root / decoded_path).resolve(): joining an absolute path to the
\* root gives that absolute path.
full_file_path(path) ==
    resolve(path_parts(path, 1, <<>>), 1,
            IF starts_with_slash(path) THEN <<>> ELSE storage_root)

MutNoResolvedCheck(loc) == TRUE

\* full_file_path.resolve().relative_to(storage_root) does not raise
relative_to_storage(loc) ==
    /\ Len(loc) >= Len(storage_root)
    /\ SubSeq(loc, 1, Len(storage_root)) = storage_root

GetAudioFile(file_path) ==
    LET req == [file_path |-> file_path]
        path == decoded_path(file_path)
        loc == full_file_path(path)
    IN  /\ UNCHANGED <<tasks, now, authVars, dataVars>>
        /\ resp' =
             IF contains_dotdot(path) \/ starts_with_slash(path)
             THEN Fail("get_audio_file", req, HTTPException(403, "Invalid file path"))
             ELSE IF ~relative_to_storage(loc)
             THEN Fail("get_audio_file", req,
                       HTTPException(403, "Access denied: Path outside storage directory"))
             ELSE IF loc \notin Directories \cup RegularFiles
             THEN Fail("get_audio_file", req, HTTPException(404, "Audio file not found"))
             ELSE IF loc \notin RegularFiles
             THEN Fail("get_audio_file", req, HTTPException(404, "Path is not a file"))
             ELSE Response("get_audio_file", req, 200, "", FALSE,
                           [kind |-> "file", location |-> loc])

NextAudio == \E file_path \in AudioPaths : GetAudioFile(file_path)

SpecAudio == Init /\ [][NextAudio]_vars

-----------------------------------------------------------------------------
(* Claims about authentication, checked under SpecAuth                     *)

EmailTaken(e) == \E u \in users : u.email = e
UsernameTaken(n) == \E u \in users : u.username = n

\* C5: registering with an email that already belongs to a user fails with
\* 400 "User with this email already exists"; with a fresh email but a used
\* username it fails with 400 "Username already taken"; in both cases the
\* users table is left exactly as it was.
C5_DuplicateRegistrationRejected ==
    [][resp'.op = "register" =>
        /\ EmailTaken(resp'.req.email) =>
              /\ resp'.status = 400
              /\ resp'.detail = "User with this email already exists"
              /\ UNCHANGED <<users, nextUserId>>
        /\ (~EmailTaken(resp'.req.email) /\ UsernameTaken(resp'.req.username)) =>
              /\ resp'.status = 400
              /\ resp'.detail = "Username already taken"
              /\ UNCHANGED <<users, nextUserId>>]_vars

\* A registration whose email and username were both taken was refused, and
\* the refusal names the email.
C5_Witness ==
    /\ resp.op = "register"
    /\ resp.status = 400
    /\ resp.detail = "User with this email already exists"
    /\ EmailTaken(resp.req.email)
    /\ UsernameTaken(resp.req.username)
    /\ users # {}

IssuedTokenResolves(i, fw) ==
    LET cur == get_current_user(Bearer(i.token), fw)
    IN  IF now <= i.token.exp
        THEN cur.ok /\ cur.user.id = i.user /\ cur.user # NoUser
        ELSE ~cur.ok /\ cur.exc.status = 401

\* C6: a token issued by register or login at time t is reported with
\* expires_in = 604800, expires at t + 604800, resolves to its user at every
\* time up to that expiry (whatever was done with it since, logout included,
\* which changes no server state) and is rejected with 401 afterwards.
C6_TokenLifetime ==
    /\ [](\A i \in issued :
            /\ i.token.exp = i.iat + 604800
            /\ \A fw \in FrameworkVariants : IssuedTokenResolves(i, fw))
    /\ []((resp.op \in {"register", "login"} /\ resp.status \in {200, 201}) =>
            /\ resp.body.expires_in = 604800
            /\ resp.body.access_token.exp = now + 604800
            /\ \E i \in issued : i.token = resp.body.access_token /\ i.iat = now
                                    /\ i.user = resp.body.user)
    /\ [][resp'.op = "logout" => UNCHANGED <<authVars, dataVars, now>>]_vars

\* A token was used to log out before its expiry, and the clock has since
\* passed that expiry.
C6_Witness ==
    /\ resp.op = "logout"
    /\ resp.status = 401
    /\ \E i \in issued : resp.req.cred = Bearer(i.token) /\ now > i.token.exp

GuardedOps == {"logout", "me"}

\* C7: on an endpoint guarded by get_current_user every credential failure
\* gets the same answer, 401 "Could not validate credentials" with a
\* WWW-Authenticate: Bearer header.
C7_UniformCredentialFailure ==
    (resp.op \in GuardedOps /\ resp.status # 200) =>
        /\ resp.status = 401
        /\ resp.detail = "Could not validate credentials"
        /\ resp.www

\* C8: get_optional_user never fails the request: an endpoint that depends
\* on it answers as for an anonymous caller whenever the credentials do not
\* resolve to an active user.
C8_OptionalUserNeverFails ==
    resp.op = "get_recordings" =>
        /\ resp.status = 200
        /\ (\A fw \in FrameworkVariants :
               ~get_current_user(resp.req.cred, fw).ok => resp.body.user = NULL)

-----------------------------------------------------------------------------
(* Claims about analysis and deletion, checked under SpecAnalyze           *)

\* The caller a request's credential resolves to (NoUser when it does not).
Caller(req) == get_current_user(req.cred, 403).user
OptionalCaller(req) == get_optional_user(req.cred, 403).user

\* Whether a request carrying req.cred gets past get_current_user.
Authenticated(req) == get_current_user(req.cred, 403).ok

\* The precondition of C1 in the state the request arrives in.
AnalysisShouldSucceed(req) ==
    /\ Authenticated(req)
    /\ SegmentById(req.segment_id) # {}
    /\ RecordingById(req.recording_id) # {}
    /\ \A r \in RecordingById(req.recording_id) :
          /\ r.user_id \in {NULL, Caller(req).id}
          /\ r.file_path \in files
    /\ \A x \in SegmentById(req.segment_id) :
          /\ x.file_path \in files
          /\ x.vocal_file_path \in files

\* C1: when the segment and the recording exist, the caller may analyze the
\* recording, both files are readable and the engine succeeds, POST
\* /api/analyze adds exactly one Attempt (the caller's, for the requested
\* segment and recording, carrying all five scores and the detailed analysis
\* of the one engine result) and answers 200 with that Attempt.
C1_AnalyzePersistsAndReturnsAttempt ==
    [][\A k \in DataCallers, sid \in SegmentIds, rid \in RecordingIds,
          sep \in SeparationOutcomes \ {"error"}, engine \in EngineResults :
          (/\ AnalysisShouldSucceed([cred |-> k[1], segment_id |-> sid,
                                     recording_id |-> rid])
           /\ AnalyzeRecording(k[1], k[2], sid, rid, sep, engine)) =>
             \E a \in attempts' :
                /\ a \notin attempts
                /\ attempts' = attempts \cup {a}
                /\ a.user_id = Caller([cred |-> k[1]]).id
                /\ a.segment_id = sid
                /\ a.recording_id = rid
                /\ a.overall_score = engine.overall_score
                /\ a.pitch_accuracy = engine.pitch_accuracy
                /\ a.rhythm_accuracy = engine.rhythm_accuracy
                /\ a.tone_similarity = engine.tone_similarity
                /\ a.timing_accuracy = engine.timing_accuracy
                /\ a.detailed_analysis = engine.detailed_analysis
                /\ resp'.status = 200
                /\ resp'.body = [kind |-> "attempt", attempt |-> a]]_vars

\* C3: DELETE /api/segments/{id} by the owner of a segment that N attempts
\* reference removes those N attempts and the segment and reports N, whatever
\* became of the segment's files; if the database step fails, the segment
\* and all attempts are still there.
C3_DeleteSegmentCascade ==
    [][(/\ resp'.op = "delete_segment"
        /\ Authenticated(resp'.req)
        /\ \E x \in SegmentById(resp'.req.segment_id) :
              x.user_id = Caller(resp'.req).id) =>
          LET sid == resp'.req.segment_id
              referencing == {a \in attempts : a.segment_id = sid}
          IN  IF resp'.req.db_ok
              THEN /\ resp'.status = 200
                   /\ resp'.body = [kind |-> "deleted", n |-> Cardinality(referencing)]
                   /\ attempts' = attempts \ referencing
                   /\ segments' = {x \in segments : x.id # sid}
              ELSE /\ resp'.status = 500
                   /\ UNCHANGED <<segments, attempts>>]_vars

\* The owner deleted the seeded segment while two attempts, one of them
\* another user's, referenced it and its vocal file could not be removed.
C3_Witness ==
    /\ resp.op = "delete_segment"
    /\ resp.status = 200
    /\ resp.body.n = 2
    /\ resp.req.segment_id = SeedSegment.id
    /\ SeedSegment.vocal_file_path \in files
    /\ SeedSegment.file_path \notin files
    /\ attempts = {}

AnalyzeLeavesNoTrace == UNCHANGED <<attempts, nextAttemptId, recordings, files>>

\* C10: for an authenticated caller POST /api/analyze answers 404 when the
\* segment does not exist, otherwise 404 when the recording does not exist,
\* otherwise 403 when the recording is owned by somebody else; in each case
\* no attempt is created, no vocals file is written and no recording changes.
C10_AnalyzeRejections ==
    [][(resp'.op = "analyze" /\ Authenticated(resp'.req)) =>
          LET segs == SegmentById(resp'.req.segment_id)
              recs == RecordingById(resp'.req.recording_id)
          IN  /\ segs = {} =>
                    /\ resp'.status = 404
                    /\ resp'.detail = "Segment not found"
                    /\ AnalyzeLeavesNoTrace
              /\ (segs # {} /\ recs = {}) =>
                    /\ resp'.status = 404
                    /\ resp'.detail = "Recording not found"
                    /\ AnalyzeLeavesNoTrace
              /\ (/\ segs # {}
                  /\ \E r \in recs : r.user_id \notin {NULL, Caller(resp'.req).id}) =>
                    /\ resp'.status = 403
                    /\ AnalyzeLeavesNoTrace]_vars

\* Somebody else's recording was refused.
C10_Witness ==
    /\ resp.op = "analyze"
    /\ resp.status = 403
    /\ resp.detail = "Not authorized to analyze this recording"
    /\ \E r \in RecordingById(resp.req.recording_id) :
          r.user_id \notin {NULL, Caller(resp.req).id}

-----------------------------------------------------------------------------
(* Claims about the whole service, checked under Spec                      *)

\* The precondition of C2 in the state the request arrives in: validation
\* and audio processing both succeed.
RecordingUploadShouldSucceed(req) ==
    /\ get_optional_user(req.cred, 403).ok
    /\ req.file.filename
    /\ validate_audio_file(req.file) = OkExc
    /\ req.file.write = "ok"
    /\ req.file.readable = "ok"
    /\ req.file_type = "recording"
    /\ req.start_time = {} /\ req.end_time = {}
    /\ \E x \in SegmentById(req.segment_id) : req.file.duration <= x.duration
    /\ req.separation # "error"

\* C2: a recording upload whose validation and processing succeed adds
\* exactly one Recording with the submitted file_type, the given segment, the
\* caller's id (null when anonymous) and a vocal path exactly when separation
\* reported success, and answers with that recording.
C2_RecordingUploadCreatesRow ==
    [][(resp'.op = "upload_recording" /\ RecordingUploadShouldSucceed(resp'.req)) =>
          \E r \in recordings' :
             /\ r \notin recordings
             /\ recordings' = recordings \cup {r}
             /\ r.file_type = resp'.req.file_type
             /\ r.segment_id = resp'.req.segment_id
             /\ r.user_id = OptionalCaller(resp'.req).id
             /\ (r.vocal_file_path # NoPath) = (resp'.req.separation = "ok")
             /\ resp'.status = 200
             /\ resp'.body = [kind |-> "recording", recording |-> r]]_vars

\* C4: in every reachable state each recording with a segment_id and each
\* attempt reference rows that exist.
C4_ReferencesResolve ==
    /\ \A r \in recordings :
          r.segment_id # NULL => SegmentById(r.segment_id) # {}
    /\ \A a \in attempts :
          /\ SegmentById(a.segment_id) # {}
          /\ RecordingById(a.recording_id) # {}

\* Cleanup removed the expired seeded segment, which a recording pointed at,
\* while an attempt on another segment stayed.
C4_Witness ==
    /\ resp.op = "cleanup_expired"
    /\ resp.status = 200
    /\ SegmentById(SeedSegment.id) = {}
    /\ \E r \in recordings : r.id = 1 /\ r.segment_id = NULL
    /\ attempts # {}

-----------------------------------------------------------------------------
(* Claims about audio serving, checked under SpecAudio                     *)

\* Strictly inside the storage root: below it, not the root itself.
StrictlyInsideStorage(loc) ==
    /\ Len(loc) > Len(storage_root)
    /\ SubSeq(loc, 1, Len(storage_root)) = storage_root

\* C9: GET /api/audio/{file_path} serves only a file whose resolved location
\* is strictly inside the storage root; a path that, once decoded, contains
\* '..' or starts with '/', or that resolves outside the root, gets 403,
\* whether or not anything exists there.
C9_AudioPathConfinement ==
    resp.op = "get_audio_file" =>
        LET path == decoded_path(resp.req.file_path)
        IN  /\ resp.status = 200 =>
                  /\ StrictlyInsideStorage(resp.body.location)
                  /\ resp.body.location \in RegularFiles
            /\ (\/ contains_dotdot(path)
                \/ starts_with_slash(path)
                \/ ~StrictlyInsideStorage(full_file_path(path))
                      /\ full_file_path(path) # storage_root) =>
                  resp.status = 403

\* A traversal to something that does not exist was answered 403.
C9_Witness ==
    /\ resp.op = "get_audio_file"
    /\ resp.status = 403
    /\ contains_dotdot(decoded_path(resp.req.file_path))
    /\ full_file_path(decoded_path(resp.req.file_path))
          \notin Directories \cup RegularFiles

-----------------------------------------------------------------------------
(* Further claims about analysis, checked under SpecAnalyze                *)

\* The request passes the existence and ownership checks of analyze.
AnalyzeReachesFileChecks(req) ==
    /\ Authenticated(req)
    /\ SegmentById(req.segment_id) # {}
    /\ RecordingById(req.recording_id) # {}
    /\ \A r \in RecordingById(req.recording_id) :
          r.user_id \in {NULL, Caller(req).id}

\* C11: when the segment's file or the recording's file cannot be read,
\* POST /api/analyze answers 404 ("Segment file not found" / "Recording
\* file not found") before separation or analysis, and creates no Attempt.
C11_UnreadableFileIs404 ==
    [][(resp'.op = "analyze" /\ AnalyzeReachesFileChecks(resp'.req)) =>
          LET segment == CHOOSE x \in SegmentById(resp'.req.segment_id) : TRUE
              recording == CHOOSE r \in RecordingById(resp'.req.recording_id) : TRUE
          IN  /\ segment.file_path \notin files =>
                    /\ resp'.status = 404
                    /\ resp'.detail = "Segment file not found"
                    /\ AnalyzeLeavesNoTrace
              /\ (segment.file_path \in files /\ recording.file_path \notin files) =>
                    /\ resp'.status = 404
                    /\ resp'.detail = "Recording file not found"
                    /\ AnalyzeLeavesNoTrace]_vars

-----------------------------------------------------------------------------
(* Claims about the upload endpoints                                       *)

\* The request gets past get_optional_user and carries a file name.
UploadReachesHandler(req) ==
    /\ get_optional_user(req.cred, 403).ok
    /\ req.file.filename

\* The checks of upload_recording that come before the duration check all
\* pass and the upload is stored and readable.
RecordingUploadChecksPass(req) ==
    /\ req.file_type \in {"recording", "audio"}
    /\ (req.file_type = "audio" => (req.start_time # {} /\ req.end_time # {}))
    /\ SegmentById(req.segment_id) # {}
    /\ file_extension(req.file) \in allowed_audio_formats

\* C12: POST /api/recording/upload answers 400 for a file_type other than
\* "recording" and "audio", 400 for "audio" without start_time or end_time,
\* 404 for a segment that does not exist, 400 for an extension that is not
\* allowed, and 400 for a "recording" without times that is longer than the
\* segment; none of these creates a Recording.
C12_RecordingUploadRejections ==
    [][(resp'.op = "upload_recording" /\ UploadReachesHandler(resp'.req)) =>
          LET req == resp'.req
              typed == req.file_type \in {"recording", "audio"}
              timed == req.file_type = "audio" =>
                          (req.start_time # {} /\ req.end_time # {})
              segs == SegmentById(req.segment_id)
          IN  /\ ~typed =>
                    resp'.status = 400 /\ UNCHANGED recordings
              /\ (typed /\ ~timed) =>
                    resp'.status = 400 /\ UNCHANGED recordings
              /\ (typed /\ timed /\ segs = {}) =>
                    resp'.status = 404 /\ UNCHANGED recordings
              /\ (typed /\ timed /\ segs # {}
                    /\ file_extension(req.file) \notin allowed_audio_formats) =>
                    resp'.status = 400 /\ UNCHANGED recordings
              /\ (/\ RecordingUploadChecksPass(req)
                  /\ validate_audio_file(req.file) = OkExc
                  /\ req.file.write = "ok"
                  /\ req.file.readable = "ok"
                  /\ req.file_type = "recording"
                  /\ (req.start_time = {} \/ req.end_time = {})
                  /\ \E x \in segs : req.file.duration > x.duration) =>
                    resp'.status = 400 /\ UNCHANGED recordings]_vars

\* The upload was validated, stored and read, so that process_song runs on
\* its durations.
SongReachesPipeline(req) ==
    /\ UploadReachesHandler(req)
    /\ validate_audio_file(req.file) = OkExc
    /\ req.file.write = "ok"
    /\ req.file.readable = "ok"

\* end_time as upload_and_process_song passes it on: clamped to the source.
ClampedEnd(req) ==
    IF req.end_time = {} THEN req.file.duration
    ELSE Min(Value(req.end_time), req.file.duration)

\* The pipeline raises ProcessingError for this request.
SongProcessingError(req) ==
    /\ UploadReachesHandler(req)
    /\ validate_audio_file(req.file) = OkExc
    /\ req.file.write = "ok"
    /\ \/ req.file.readable = "no_data"
       \/ /\ req.file.readable = "ok"
          /\ \/ process_song_error(req.start_time, ClampedEnd(req)) # ""
             \/ req.separation = "error"

\* C13: POST /api/upload-and-process answers 413 for an upload over the size
\* limit, 400 for one that fails the filename, extension or content-type
\* validation, 422 for a ProcessingError of the pipeline, and 500 only for
\* a failure of none of these kinds; no Segment is created in these cases.
C13_UploadErrorStatuses ==
    [][(resp'.op = "upload_and_process"
          /\ get_optional_user(resp'.req.cred, 403).ok) =>
          LET req == resp'.req
              invalid == validate_audio_file(req.file)
          IN  /\ req.file.oversize =>
                    resp'.status = 413 /\ UNCHANGED segments
              /\ (~req.file.oversize /\ (~req.file.filename \/ invalid # OkExc)) =>
                    resp'.status = 400 /\ UNCHANGED segments
              /\ SongProcessingError(req) =>
                    resp'.status = 422 /\ UNCHANGED segments
              /\ resp'.status = 500 =>
                    /\ ~req.file.oversize
                    /\ req.file.filename /\ invalid = OkExc
                    /\ ~SongProcessingError(req)
                    /\ UNCHANGED segments]_vars

C15_SegmentStartNonNegative ==
    /\ [](\A x \in segments : x.start_time >= 0 /\ x.end_time > x.start_time)
    /\ [][(resp'.op = "upload_and_process" /\ resp'.req.start_time < 0) =>
             (resp'.status # 200 /\ UNCHANGED segments)]_vars

\* C16: whenever POST /api/upload-and-process or POST /api/recording/upload
\* has finished, on whatever path, the file it wrote under the temporary
\* directory is gone.
C16_TempFileRemoved ==
    resp.op \in {"upload_and_process", "upload_recording"} =>
        \A p \in files : p.dir # "temp"

-----------------------------------------------------------------------------
(* Claims about attempts, checked under SpecAttempts                       *)

AttemptOps == {"get_attempt", "get_analysis_summary", "delete_attempt"}

\* What each of the three endpoints answers for attempt a.
ShowsAttempt(r, a) ==
    IF r.op = "get_attempt" THEN r.body = [kind |-> "attempt", attempt |-> a]
    ELSE IF r.op = "get_analysis_summary"
    THEN /\ r.body.kind = "summary"
         /\ r.body.attempt_id = a.id
         /\ r.body.overall_score = a.overall_score
         /\ r.body.detailed_analysis = a.detailed_analysis
    ELSE r.body = [kind |-> "attempt_id", id |-> a.id]

\* C17: an attempt is read and deleted only by its owner: a missing id gives
\* 404, somebody else's attempt 403 and no change, the owner's delete
\* removes that one attempt and nothing else, and an id that has been
\* deleted stays missing.
C17_AttemptOwnership ==
    /\ [][resp'.op \in AttemptOps =>
             LET req == resp'.req
                 found == AttemptById(req.attempt_id)
                 me == Caller(req).id
             IN  /\ resp'.status = 200 =>
                       /\ Authenticated(req)
                       /\ \E a \in found : a.user_id = me /\ ShowsAttempt(resp', a)
                 /\ UNCHANGED <<segments, recordings>>
                 /\ (resp'.op # "delete_attempt" \/ resp'.status # 200) =>
                       UNCHANGED attempts
                 /\ Authenticated(req) =>
                       /\ found = {} => resp'.status = 404
                       /\ (\E a \in found : a.user_id # me) => resp'.status = 403
                       /\ (\E a \in found : a.user_id = me) =>
                             /\ resp'.status = 200
                             /\ resp'.op = "delete_attempt" =>
                                   attempts' = attempts \ found]_vars
    /\ [][\A i \in AttemptIds :
             (i < nextAttemptId /\ AttemptById(i) = {}) =>
                {a \in attempts' : a.id = i} = {}]_vars

\* The owner deleted one of two attempts; the other user's attempt stayed.
C17_Witness ==
    /\ resp.op = "delete_attempt"
    /\ resp.status = 200
    /\ AttemptById(resp.req.attempt_id) = {}
    /\ \E a \in attempts : a.user_id # Caller(resp.req).id

-----------------------------------------------------------------------------
(* Claims about reading segments, checked under SpecSegments               *)

-----------------------------------------------------------------------------
(* Claims about reading recordings, checked under SpecRecordings           *)

\* C19: GET /api/recording/{id} answers 404 for a missing recording, 403 when
\* the caller is authenticated and is not the recording's user (a recording
\* without an owner included), and the recording otherwise, in particular to
\* every anonymous caller; GET /api/recording/ lists to an authenticated
\* caller only recordings of their own.
C19_RecordingReads ==
    [][/\ resp'.op = "get_recording" =>
             LET req == resp'.req
                 me == OptionalCaller(req)
                 found == RecordingById(req.recording_id)
             IN  /\ found = {} => resp'.status = 404
                 /\ \A r \in found :
                       IF me # NoUser /\ r.user_id # me.id
                       THEN resp'.status = 403
                       ELSE /\ resp'.status = 200
                            /\ resp'.body = [kind |-> "recording", recording |-> r]
       /\ (resp'.op = "get_recordings" /\ OptionalCaller(resp'.req) # NoUser) =>
             /\ resp'.status = 200
             /\ resp'.body.ids \subseteq
                   {r.id : r \in {x \in recordings :
                                     x.user_id = OptionalCaller(resp'.req).id}}]_vars

-----------------------------------------------------------------------------
(* Claims about login, checked under SpecAuth                              *)

\* Whether the password of a login request verifies against a stored user
\* with the request's email.
PasswordVerifies(req) ==
    \E u \in users : /\ u.email = req.email
                     /\ verify_password(req.password, u.password_hash)

\* C20: login issues a token only for an existing email whose password
\* verifies and whose user is active; an unknown email and a wrong password
\* get the very same 401 "Invalid email or password"; "User account is
\* inactive" is answered only once the password has verified; and login
\* changes no stored row (tokens are not stored: issued is what clients hold).
C20_LoginDisclosesNothing ==
    [][resp'.op = "login" =>
          LET req == resp'.req
          IN  /\ UNCHANGED <<users, nextUserId, dataVars>>
              /\ resp'.status = 200 =>
                    \E u \in users :
                       /\ u.email = req.email
                       /\ verify_password(req.password, u.password_hash)
                       /\ u.is_active
                       /\ resp'.body =
                             TokenBody(u, create_access_token(Str(u.id), now))
              /\ resp'.status # 200 =>
                    /\ issued' = issued
                    /\ resp'.body = NoBody
              /\ ~PasswordVerifies(req) =>
                    /\ resp'.status = 401
                    /\ resp'.detail = "Invalid email or password"
                    /\ resp'.www = FALSE
                    /\ resp'.body = NoBody
              /\ resp'.detail = "User account is inactive" =>
                    /\ PasswordVerifies(req)
                    /\ resp'.status = 401]_vars

\* A registered email was tried with a password that does not verify.
C20_Witness ==
    /\ resp.op = "login"
    /\ resp.status = 401
    /\ resp.detail = "Invalid email or password"
    /\ \E u \in users : u.email = resp.req.email
    /\ ~PasswordVerifies(resp.req)

-----------------------------------------------------------------------------
(* Claims about the expiry sweep, checked under SpecCleanup                *)

\* Whether the sweep cannot remove segment x: one of its files cannot be
\* deleted, or its row cannot be (attempts still refer to it).
RemovalFails(x, stuck) ==
    \/ delete_segment_files(x, files, stuck).raised
    \/ \E a \in attempts : a.segment_id = x.id

\* C21: the sweep removes only segments whose expires_at is strictly in the
\* past; a segment whose removal fails is skipped and keeps its row without
\* stopping the removal of the others; and the count it returns is the
\* number of Segment rows the commit removed.
C21_CleanupSkipsFailures ==
    [][\A k \in DataCallers, stuck \in StuckChoices :
          (CleanupExpired(k[1], k[2], stuck) /\ get_optional_user(k[1], k[2]).ok) =>
             /\ segments' \subseteq segments
             /\ (segments \ segments') \subseteq
                   {x \in segments : x.expires_at # NULL /\ x.expires_at < now}
             /\ \A x \in expired_segments :
                   IF RemovalFails(x, stuck) THEN x \in segments'
                                             ELSE x \notin segments'
             /\ resp'.status = 200 =>
                   resp'.body.n = Cardinality(segments \ segments')]_vars

-----------------------------------------------------------------------------
(* Claims about concurrent deletion, checked under SpecDeleteRace          *)

\* Two finished DELETE requests for the seeded segment, both by its owner.
TwoOwnerDeletes(i, j) ==
    /\ i # j
    /\ \A k \in {i, j} :
          /\ tasks[k].op = "delete_segment"
          /\ tasks[k].pc = "done"
          /\ tasks[k].sid = SeedSegment.id
          /\ tasks[k].user = SeedSegment.user_id

\* C22: however two DELETE requests of the owner for one segment interleave,
\* one reports success and the other gets 404, never 500, and the segment
\* row with its attempts is removed once: a commit that reports success
\* found the row still there.
C22_ConcurrentDeleteOnce ==
    /\ [](\A i, j \in TaskIds :
            TwoOwnerDeletes(i, j) =>
               {tasks[i].status, tasks[j].status} = {200, 404})
    /\ [][\A i \in TaskIds :
            (DeleteSegmentCommit(i) /\ resp'.status = 200) =>
               SegmentById(tasks[i].sid) # {}]_vars

-----------------------------------------------------------------------------
(* Claims about the event loop, checked under SpecLoop                     *)

\* Request i is inside process_song, separate_vocals or
\* analyze_singing_similarity.
InJob(i) == tasks[i].pc \in CpuJobs

\* C23: while a request executes process_song, separate_vocals or
\* analyze_singing_similarity no step of another request executes: the only
\* thing that happens next is that request's own next step, and no two
\* requests are ever inside such a job together.
C23_JobBlocksLoop ==
    /\ [](\A i, j \in TaskIds : (InJob(i) /\ InJob(j)) => i = j)
    /\ [][\A i \in TaskIds :
            InJob(i) => /\ tasks'[i] # tasks[i]
                        /\ \A j \in TaskIds \ {i} : tasks'[j] = tasks[j]]_vars

\* One request is inside a job while another is waiting at a suspension
\* point with its work unfinished.
C23_Witness ==
    \E i, j \in TaskIds :
       /\ tasks[i].pc = "analyze_singing_similarity"
       /\ tasks[j].pc \in {"file_read", "db_get", "commit", "commit_vocals"}

-----------------------------------------------------------------------------
(* Claims about the analysis engine, checked under SpecEngine              *)

\* C24: the result has a duration_warning, of type "critical", exactly when
\* user_duration / ref_duration < 0.5, the ratio counting as 0 when
\* ref_duration <= 0; at a ratio of 0.5 or more the key is absent.
C24_DurationWarning ==
    resp.op = "analyze_singing_similarity" =>
       LET ref == resp.req.ref_duration
           usr == resp.req.user_duration
           below == IF ref <= 0 THEN TRUE ELSE 2 * usr < ref
       IN  /\ below => resp.body.duration_warning = "critical"
           /\ ~below => resp.body.duration_warning = "absent"

\* The recording covers exactly half of the reference: no warning.
C24_Witness ==
    /\ resp.op = "analyze_singing_similarity"
    /\ resp.req.ref_duration = 4
    /\ resp.req.user_duration = 2
    /\ resp.body.duration_warning = "absent"

-----------------------------------------------------------------------------
(* Claims about segment extraction, checked under SpecExtract              *)

\* clamp(x, lo, hi)
Clamp(x, lo, hi) == IF x < lo THEN lo ELSE IF x > hi THEN hi ELSE x

\* C25: for every start_time, end_time and length N, extract_segment writes
\* exactly the samples [s, e) with s = clamp(int(start_time*sr), 0, N) and
\* e = clamp(int(end_time*sr), s, N) and returns (e - s)/sr, a negative
\* start_time, an end_time past the end and end_time < start_time included.
C25_ExtractClamped ==
    resp.op = "extract_segment" =>
       LET call == resp.req
           s == Clamp(to_samples(call.start_time, call.sample_rate),
                      0, call.audio_length)
           e == Clamp(to_samples(call.end_time, call.sample_rate),
                      s, call.audio_length)
       IN  /\ resp.body.samples = {k \in 0..(call.audio_length - 1) : s <= k /\ k < e}
           /\ resp.body.actual_duration = [num |-> e - s, den |-> call.sample_rate]

\* Both pitches of a sampled point are present and positive.
BothPitched(point, user_duration) ==
    /\ point.ref > 0
    /\ point.time <= user_duration
    /\ point.user > 0

\* C26: in the pitch comparison a sampled point adds its semitone difference
\* to the error list only when both pitches are present and positive and the
\* difference is not zero, and it counts as matched exactly when that
\* difference is below 0.5 (0.5 itself is no match); so notes_total is the
\* number of non-zero differences, notes_matched <= notes_total, and
\* pitch_score is 0 when the error list is empty.
C26_PitchComparison ==
    resp.op = "analyze_singing_similarity" =>
       LET points == resp.req.points
           added == {k \in 1..Len(points) :
                        /\ BothPitched(points[k], resp.req.user_duration)
                        /\ Abs(points[k].user - points[k].ref) # 0}
           matched == {k \in added : Abs(points[k].user - points[k].ref) < 5}
       IN  /\ resp.body.notes_total = Cardinality(added)
           /\ Len(resp.body.semitone_errors) = Cardinality(added)
           /\ \A n \in 1..Len(resp.body.semitone_errors) :
                 resp.body.semitone_errors[n] # 0
           /\ resp.body.notes_matched = Cardinality(matched)
           /\ resp.body.notes_matched <= resp.body.notes_total
           /\ resp.body.semitone_errors = <<>> => resp.body.pitch_accuracy = 0

-----------------------------------------------------------------------------
(* Claims about concurrent registration, checked under SpecRegisterRace    *)

\* C27: however concurrent registrations interleave, no two User rows share
\* an email or a username, and a registration that loses the race for one
\* fails with the 400 duplicate-registration error and leaves no row.
C27_RegistrationRace ==
    /\ [](\A u, v \in users :
            (u.email = v.email \/ u.username = v.username) => u = v)
    /\ [][\A i \in TaskIds :
            (RegisterCommit(i) /\ unique_violation(tasks[i].email, tasks[i].username)) =>
               /\ resp'.status = 400
               /\ resp'.detail \in {"User with this email already exists",
                                    "Username already taken"}
               /\ users' = users]_vars

-----------------------------------------------------------------------------
(* Claims about inactive accounts, checked under SpecAuth                  *)

\* C28: a user whose is_active flag is false is never resolved as the
\* current user: GET /api/auth/me (get_current_user) never answers 200 on
\* behalf of an inactive account, and GET /api/recording/
\* (get_optional_user) never scopes its answer to one.
C28_InactiveNeverResolved ==
    /\ (resp.op = "me" /\ resp.status = 200) =>
          db_get_user(resp.body.user).is_active
    /\ (resp.op = "get_recordings" /\ resp.status = 200 /\ resp.body.user # NULL) =>
          db_get_user(resp.body.user).is_active

-----------------------------------------------------------------------------
(* Claims about the stored duration warning, checked under SpecAttempts    *)

\* The engine result an Attempt row was made from.
MadeFrom(a, engine) == a.detailed_analysis = engine.detailed_analysis

\* C29: an Attempt row created from an engine result that contains a
\* duration_warning stores it in its duration_warning column, and GET
\* /api/attempts/{id} returns it; a row created from a result without one
\* has a null column.
C29_DurationWarningStored ==
    /\ \A a \in attempts, engine \in EngineResults :
          MadeFrom(a, engine) =>
             a.duration_warning = IF engine.duration_warning = "absent" THEN "null"
                                  ELSE engine.duration_warning
    /\ \A engine \in EngineResults :
          (/\ resp.op = "get_attempt" /\ resp.status = 200
           /\ MadeFrom(resp.body.attempt, engine)
           /\ engine.duration_warning # "absent") =>
             resp.body.attempt.duration_warning = engine.duration_warning

-----------------------------------------------------------------------------
(* Claims about files left by failed uploads, checked under SpecUpload     *)

Referenced(f) ==
    \/ \E s \in segments : f \in {s.file_path, s.vocal_file_path}
    \/ \E r \in recordings : f \in {r.file_path, r.vocal_file_path}

\* C30: after any sequence of POST /api/upload-and-process and POST
\* /api/recording/upload requests, every file in segments/, recordings/
\* and vocals/ is referenced by the file_path or vocal_file_path of some
\* Segment or Recording row: a request that ends in an error leaves none
\* of the files it wrote there.
C30_NoOrphanFiles ==
    \A f \in files :
        f.dir \in {"segments", "recordings", "vocals"} => Referenced(f)

====
